---- MODULE Spec2Model ----
(***************************************************************************)
(* Two-peer voting game (App component): peer synchronisation protocol.    *)
(*                                                                         *)
(* Two browser peers, "h" (the peer that clicks "create offer") and "g"    *)
(* (the peer that applies the offer and answers), each run one App         *)
(* component.  A peer's state is the component's useState/useRef cells and *)
(* its localStorage.  Every action is one event handler of the component   *)
(* followed by the React render it causes, i.e. the useEffect bodies whose *)
(* dependencies changed (operator effects).                                *)
(*                                                                         *)
(* Encoding of JavaScript values:                                          *)
(*   null role            -> "none"                                        *)
(*   null id / null time  -> 0   (ids and Unix seconds are positive; the   *)
(*                                code tests them by truthiness)           *)
(*   null sessionRoles    -> NoRoles                                       *)
(*   absent snapshot      -> NoSnapshot (gameId = 0)                       *)
(* A state cell and its synchronous ref mirror (currentRoundId /           *)
(* currentRoundIdRef, sessionId / sessionIdRef, lockedRole / lockedRoleRef,*)
(* ...) are one field: the handlers assign both together or the mirror is  *)
(* refreshed by the ref-sync effects of the render that ends the action.   *)
(* Cells that only hold text or layout for the page (statusMessage, error, *)
(* infoMessage, roleSyncMessage, snapshotMeta, the SDP texts, the history  *)
(* tabs) are left out; voteIgnoreMessage is kept as a tag.  localStorage   *)
(* writes do not throw.                                                    *)
(* assignRolesSent is a history variable: for each peer, the number of     *)
(* assignRoles messages it has sent since its connection status last was   *)
(* other than "connected".  stateSnapshotSent is a history variable too:   *)
(* whether the peer has sent a stateSnapshot since its connection status   *)
(* last was other than "connected".                                        *)
(***************************************************************************)
EXTENDS Integers, Sequences, FiniteSets, TLC

VARIABLES st, inbox, now, nextGameId, nextSessionId, flickers, proposals, last,
          assignRolesSent, stateSnapshotSent

vars == <<st, inbox, now, nextGameId, nextSessionId, flickers, proposals, last,
          assignRolesSent, stateSnapshotSent>>

\* ---------------------------------------------------------------- bounds
MaxTime == 2          \* the clock runs over 1..MaxTime
MaxRounds == 2        \* round ids generated over a behaviour
MaxVotes == 2         \* length of a peer's vote log
MaxQueue == 2         \* messages in flight towards one peer
MaxVersion == 4       \* snapshot version reached by a peer
MaxFlickers == 1      \* transient connection losses over a behaviour
MaxProposals == 2     \* negotiation proposals made over a behaviour
MaxSessions == 2      \* session ids generated over a behaviour

\* ------------------------------------------------------- program constants
MaxAssignRolesAttempts == 3

Peers == {"h", "g"}
Roles == {"red", "blue"}
NoRole == "none"
NoRoles == [hostRole |-> "none", guestRole |-> "none"]

other(p) == IF p = "h" THEN "g" ELSE "h"

\* Variant: the other side is given the same role.
oppositeSame(role) == role

opposite(role) == IF role = "red" THEN "blue" ELSE "red"

max(a, b) == IF a >= b THEN a ELSE b

NoSnapshot ==
  [version |-> 0, lastUpdatedAt |-> 0, gameId |-> 0, sessionId |-> 0,
   isHost |-> FALSE, lockedRole |-> "none", startTimeSec |-> 0,
   endTimeSec |-> 0, gameState |-> "idle", scoreRed |-> 0, scoreBlue |-> 0,
   events |-> <<>>]

GameIds == 1..MaxRounds

\* The App component right after mount with an empty localStorage.
InitialPeer ==
  [lockedRole |-> "none", roleLocked |-> FALSE, sessionId |-> 0,
   connectionMode |-> "offer", connectionStatus |-> "idle",
   channel |-> "none",
   gameState |-> "idle", currentRoundId |-> 0,
   startTimeSec |-> 0, endTimeSec |-> 0, timeRemaining |-> 0,
   scores |-> [red |-> 0, blue |-> 0], voteEvents |-> <<>>,
   incomingEndChange |-> 0, incomingEndNow |-> FALSE,
   rolesConfirmed |-> FALSE, sessionRoles |-> NoRoles,
   voteIgnoreMessage |-> "none",
   timerRef |-> FALSE,
   hasSentAssignRoles |-> FALSE, hasSentStateSnapshot |-> FALSE,
   assignRolesRetryCount |-> 0, assignRolesRetryTimer |-> FALSE,
   snapshotVersion |-> 0,
   snapshotStore |-> [id \in GameIds |-> NoSnapshot], lastSnapshotId |-> 0,
   historyIndex |-> <<>>,
   out |-> <<>>, touched |-> FALSE, wrote |-> <<>>]

\* ------------------------------------------------------ state operations
\* Each operation maps a peer record to the peer record after the call.

resetGameState(s) ==
  [s EXCEPT !.timerRef = FALSE,
            !.currentRoundId = 0,
            !.snapshotVersion = 0,
            !.startTimeSec = 0, !.endTimeSec = 0,
            !.scores = [red |-> 0, blue |-> 0], !.voteEvents = <<>>,
            !.timeRemaining = 0, !.gameState = "idle",
            !.incomingEndChange = 0, !.incomingEndNow = FALSE,
            !.voteIgnoreMessage = "none",
            !.touched = TRUE]

\* Variant: the new entry is put at the head of the vote log.
\* Variant: the vote is counted but not logged.
applyVoteUnlogged(s, target, elapsed) ==
  [s EXCEPT !.scores = [s.scores EXCEPT ![target] = @ + 1],
            !.voteIgnoreMessage = "none",
            !.touched = TRUE]

applyVotePrepending(s, target, elapsed) ==
  [s EXCEPT !.scores = [s.scores EXCEPT ![target] = @ + 1],
            !.voteEvents = <<[target |-> target, elapsed |-> elapsed]>> \o @,
            !.voteIgnoreMessage = "none",
            !.touched = TRUE]

applyVote(s, target, elapsed) ==
  [s EXCEPT !.scores = [s.scores EXCEPT ![target] = @ + 1],
            !.voteEvents = Append(@, [target |-> target, elapsed |-> elapsed]),
            !.voteIgnoreMessage = "none",
            !.touched = TRUE]

\* Variant: a new round keeps the scores and the vote log of the previous one.
beginGameKeepingVotes(s, roundId, startSec, endSec) ==
  IF endSec <= startSec
    THEN s
    ELSE [s EXCEPT !.currentRoundId = roundId,
                   !.startTimeSec = startSec, !.endTimeSec = endSec,
                   !.timeRemaining = max(0, endSec - startSec),
                   !.gameState = "running",
                   !.incomingEndChange = 0, !.incomingEndNow = FALSE,
                   !.touched = TRUE]

\* Variant: the proposals pending from the round before stay pending.
beginGameKeepingProposals(s, roundId, startSec, endSec) ==
  IF endSec <= startSec
    THEN s
    ELSE [s EXCEPT !.currentRoundId = roundId,
                   !.startTimeSec = startSec, !.endTimeSec = endSec,
                   !.scores = [red |-> 0, blue |-> 0], !.voteEvents = <<>>,
                   !.timeRemaining = max(0, endSec - startSec),
                   !.gameState = "running",
                   !.touched = TRUE]

beginGameWithEndTime(s, roundId, startSec, endSec) ==
  IF endSec <= startSec
    THEN s
    ELSE [s EXCEPT !.currentRoundId = roundId,
                   !.startTimeSec = startSec, !.endTimeSec = endSec,
                   !.scores = [red |-> 0, blue |-> 0], !.voteEvents = <<>>,
                   !.timeRemaining = max(0, endSec - startSec),
                   !.gameState = "running",
                   !.incomingEndChange = 0, !.incomingEndNow = FALSE,
                   !.touched = TRUE]

\* Variant: the agreed end time is not applied.
applyEndTimeUpdateIgnored(s, newEndTimeSec) == s

applyEndTimeUpdate(s, newEndTimeSec) ==
  [s EXCEPT !.endTimeSec = newEndTimeSec]

\* Variant: the round is ended but keeps its scheduled end time.
applyImmediateEndLocalKeepingEndTime(s, nowSec) ==
  [s EXCEPT !.timerRef = FALSE,
            !.timeRemaining = 0,
            !.gameState = "ended",
            !.incomingEndNow = FALSE]

applyImmediateEndLocal(s, nowSec) ==
  [s EXCEPT !.timerRef = FALSE,
            !.endTimeSec = nowSec,
            !.timeRemaining = 0,
            !.gameState = "ended",
            !.incomingEndNow = FALSE]

\* Variant: the pending retry timer is left alone.
clearAssignRolesRetryTimerNot(s) == s

clearAssignRolesRetryTimer(s) ==
  [s EXCEPT !.assignRolesRetryTimer = FALSE]

resetSessionAndRolesForNewAnswerJoin(s) ==
  [clearAssignRolesRetryTimer(s) EXCEPT
      !.roleLocked = FALSE, !.lockedRole = "none",
      !.sessionRoles = NoRoles,
      !.rolesConfirmed = FALSE,
      !.assignRolesRetryCount = 0]

ensureRoleFromSessionRoles(s, reason) ==
  IF s.sessionRoles = NoRoles
    THEN s
    ELSE LET expectedRole == IF s.connectionMode = "offer"
                               THEN s.sessionRoles.hostRole
                               ELSE s.sessionRoles.guestRole
         IN  IF s.lockedRole # expectedRole
               THEN [s EXCEPT !.roleLocked = TRUE, !.lockedRole = expectedRole]
               ELSE [s EXCEPT !.roleLocked = TRUE]

\* sendMessage appends to the data channel when it is open; otherwise only an
\* error text is set.
sendMessage(s, msg) ==
  IF s.channel # "open" THEN s ELSE [s EXCEPT !.out = Append(@, msg)]

\* sendAssignRolesOnce: sid is the id generateSessionId() would return.
sendAssignRolesSent(s) == s.channel = "open" /\ s.lockedRole # "none"

sendAssignRolesOnce(s, sid) ==
  IF ~sendAssignRolesSent(s)
    THEN s
    ELSE LET session == IF s.sessionId # 0 THEN s.sessionId ELSE sid
             hostRole == s.lockedRole
             guestRole == opposite(hostRole)
         IN  [s EXCEPT !.sessionId = session,
                       !.sessionRoles = [hostRole |-> hostRole, guestRole |-> guestRole],
                       !.out = Append(@, [type |-> "assignRoles", sessionId |-> session,
                                          hostRole |-> hostRole, guestRole |-> guestRole]),
                       !.hasSentAssignRoles = TRUE,
                       !.roleLocked = TRUE,
                       !.lockedRole = hostRole]

\* ------------------------------------------------------------ snapshots
toSnapshotEvents(voteEvents) ==
  [i \in 1..Len(voteEvents) |-> [at |-> voteEvents[i].elapsed, target |-> voteEvents[i].target]]

\* Variant: the vote log is rebuilt in reverse order.
toVoteEventsReversed(events) ==
  [i \in 1..Len(events) |-> [target |-> events[Len(events) + 1 - i].target,
                             elapsed |-> events[Len(events) + 1 - i].at]]

toVoteEvents(events) ==
  [i \in 1..Len(events) |-> [target |-> events[i].target, elapsed |-> events[i].at]]

canBuildSnapshot(s) ==
  /\ s.currentRoundId # 0 /\ s.startTimeSec # 0 /\ s.endTimeSec # 0
  /\ s.lockedRole # "none"
  /\ s.gameState # "idle"

\* buildSnapshotFromState; NoSnapshot stands for the null result.
buildSnapshotFromState(s, nowSec) ==
  IF ~canBuildSnapshot(s)
    THEN NoSnapshot
    ELSE [version |-> s.snapshotVersion,
          lastUpdatedAt |-> nowSec,
          gameId |-> s.currentRoundId,
          sessionId |-> s.sessionId,
          isHost |-> (s.connectionMode = "offer"),
          lockedRole |-> s.lockedRole,
          startTimeSec |-> s.startTimeSec,
          endTimeSec |-> s.endTimeSec,
          gameState |-> s.gameState,
          scoreRed |-> s.scores.red,
          scoreBlue |-> s.scores.blue,
          events |-> toSnapshotEvents(s.voteEvents)]

\* Variant: a persist skips a version.
newVersionSkipping(s) == s.snapshotVersion + 2

newVersion(s) == s.snapshotVersion + 1

\* persistSnapshot reads the rendered state (closure c) and the refs and the
\* store of s; the snapshot it returns is Head of the versions in "wrote".
persistedSnapshot(c, s, nowSec) ==
  [buildSnapshotFromState([c EXCEPT !.snapshotVersion = s.snapshotVersion], nowSec)
     EXCEPT !.version = newVersion(s)]

persistSnapshot(c, s, nowSec) ==
  IF ~canBuildSnapshot(c)
    THEN s
    ELSE LET snapshot == persistedSnapshot(c, s, nowSec)
         IN  [s EXCEPT !.snapshotStore = [@ EXCEPT ![snapshot.gameId] = snapshot],
                       !.lastSnapshotId = snapshot.gameId,
                       !.snapshotVersion = snapshot.version,
                       !.wrote = Append(@, snapshot.version)]

\* --------------------------------------------------------- history index
\* The comparator of the index: endTimeSec descending, then lastUpdatedAt
\* descending.
\* Variant: earlier end times come first.
historyBeforeAscending(a, b) ==
  IF a.endTimeSec # b.endTimeSec
    THEN a.endTimeSec < b.endTimeSec
    ELSE a.lastUpdatedAt < b.lastUpdatedAt

historyBefore(a, b) ==
  IF a.endTimeSec # b.endTimeSec
    THEN a.endTimeSec > b.endTimeSec
    ELSE a.lastUpdatedAt > b.lastUpdatedAt

RECURSIVE historyInsert(_, _)
historyInsert(sorted, e) ==
  IF sorted = <<>> THEN <<e>>
  ELSE IF historyBefore(e, Head(sorted)) THEN <<e>> \o sorted
  ELSE <<Head(sorted)>> \o historyInsert(Tail(sorted), e)

\* Array.prototype.sort is stable: entries are inserted left to right, each
\* after the entries it does not precede.
RECURSIVE historySort(_)
historySort(entries) ==
  IF entries = <<>> THEN <<>>
  ELSE historyInsert(historySort(SubSeq(entries, 1, Len(entries) - 1)),
                     entries[Len(entries)])

upsertHistoryIndex(s, snapshot) ==
  IF snapshot.gameId = 0 \/ snapshot.gameState # "ended"
    THEN s
    ELSE LET entry == [gameId |-> snapshot.gameId,
                       startTimeSec |-> snapshot.startTimeSec,
                       endTimeSec |-> snapshot.endTimeSec,
                       scoreRed |-> snapshot.scoreRed,
                       scoreBlue |-> snapshot.scoreBlue,
                       lastUpdatedAt |-> snapshot.lastUpdatedAt]
             prev == s.historyIndex
             hits == {i \in 1..Len(prev) : prev[i].gameId = entry.gameId}
             next == IF hits # {}
                       THEN LET existingIndex == CHOOSE i \in hits : \A j \in hits : i <= j
                            IN  [prev EXCEPT ![existingIndex] = entry]
                       ELSE Append(prev, entry)
         IN  [s EXCEPT !.historyIndex = historySort(next)]

\* ------------------------------------------------------------- hydration
\* Variant: a local vote log longer than the snapshot's is kept.
hydrateKeepingLocalVotes(s, snapshot, nowSec) ==
  [s EXCEPT !.currentRoundId = snapshot.gameId,
            !.startTimeSec = snapshot.startTimeSec,
            !.endTimeSec = snapshot.endTimeSec,
            !.scores = IF Len(s.voteEvents) > Len(snapshot.events) THEN @
                       ELSE [red |-> snapshot.scoreRed, blue |-> snapshot.scoreBlue],
            !.voteEvents = IF Len(@) > Len(snapshot.events) THEN @
                           ELSE toVoteEvents(snapshot.events),
            !.timeRemaining = IF snapshot.gameState = "running"
                                THEN max(0, snapshot.endTimeSec - nowSec) ELSE 0,
            !.gameState = snapshot.gameState,
            !.lockedRole = snapshot.lockedRole,
            !.roleLocked = TRUE,
            !.sessionId = snapshot.sessionId,
            !.snapshotVersion = snapshot.version,
            !.snapshotStore = [@ EXCEPT ![snapshot.gameId] = snapshot],
            !.lastSnapshotId = snapshot.gameId,
            !.touched = TRUE]

hydrateStateFromSnapshot(s, snapshot, nowSec) ==
  LET remaining == IF snapshot.gameState = "running"
                     THEN max(0, snapshot.endTimeSec - nowSec)
                     ELSE 0
  IN  [s EXCEPT !.currentRoundId = snapshot.gameId,
                !.startTimeSec = snapshot.startTimeSec,
                !.endTimeSec = snapshot.endTimeSec,
                !.scores = [red |-> snapshot.scoreRed, blue |-> snapshot.scoreBlue],
                !.voteEvents = toVoteEvents(snapshot.events),
                !.timeRemaining = remaining,
                !.gameState = snapshot.gameState,
                !.lockedRole = snapshot.lockedRole,
                !.roleLocked = TRUE,
                !.sessionId = snapshot.sessionId,
                !.snapshotVersion = snapshot.version,
                !.snapshotStore = [@ EXCEPT ![snapshot.gameId] = snapshot],
                !.lastSnapshotId = snapshot.gameId,
                !.touched = TRUE]

\* The component as mounted: every cell at its initial value, local storage
\* as it was left; the history list is read from storage and sorted.
mount(s) ==
  [InitialPeer EXCEPT !.snapshotStore = s.snapshotStore,
                      !.lastSnapshotId = s.lastSnapshotId,
                      !.historyIndex = historySort(s.historyIndex)]

\* Variant: an ended snapshot is resumed however long ago its round ended.
resumeOnLoadAnyAge(s, gidFromUrl, nowSec) ==
  LET gameIdToUse == IF gidFromUrl # 0 THEN gidFromUrl ELSE s.lastSnapshotId
  IN  IF gameIdToUse = 0 THEN s
      ELSE IF s.snapshotStore[gameIdToUse] = NoSnapshot THEN s
      ELSE hydrateStateFromSnapshot(s, s.snapshotStore[gameIdToUse], nowSec)

\* The resume-on-load effect: gid of the address, else the last-touched
\* pointer; nothing without a stored snapshot, nothing for a snapshot that
\* ended in the past.
resumeOnLoad(s, gidFromUrl, nowSec) ==
  LET gameIdToUse == IF gidFromUrl # 0 THEN gidFromUrl ELSE s.lastSnapshotId
  IN  IF gameIdToUse = 0 THEN s
      ELSE IF s.snapshotStore[gameIdToUse] = NoSnapshot THEN s
      ELSE LET parsed == s.snapshotStore[gameIdToUse]
           IN  IF parsed.gameId = 0 THEN s
               ELSE IF /\ parsed.gameState = "ended"
                       /\ parsed.endTimeSec # 0
                       /\ nowSec > parsed.endTimeSec
                 THEN s
               ELSE hydrateStateFromSnapshot(s, parsed, nowSec)

\* ------------------------------------------------------ incoming messages
\* Variant: only the absence of a round is checked, not the round id.
staleRoundNullOnly(s, msg) == s.currentRoundId = 0

staleRound(s, msg) == s.currentRoundId = 0 \/ msg.roundId # s.currentRoundId

onStart(s, msg, nowSec) ==
  IF msg.endTime <= nowSec
    THEN s
    ELSE LET withRoles == IF msg.roles # NoRoles
                            THEN ensureRoleFromSessionRoles(
                                   [s EXCEPT !.sessionRoles = msg.roles], "fallback-start")
                            ELSE s
             cleared == [withRoles EXCEPT !.snapshotVersion = 0]
         IN  beginGameWithEndTime(cleared, msg.roundId, nowSec, msg.endTime)

\* Variant: a snapshot is adopted whatever round the receiver is in.
onStateSnapshotAnyRound(s, msg, nowSec) ==
  IF msg.payload.gameId = 0 THEN s
  ELSE hydrateStateFromSnapshot(s, msg.payload, nowSec)

onStateSnapshot(s, msg, nowSec) ==
  LET snapshot == msg.payload
  IN  IF snapshot.gameId = 0 THEN s
      ELSE IF s.currentRoundId # 0 /\ s.currentRoundId # snapshot.gameId THEN s
      ELSE hydrateStateFromSnapshot(s, snapshot, nowSec)

\* Variant: the vote's target is not compared with the locked role.
onVoteAnyTarget(s, msg) ==
  IF staleRound(s, msg) THEN s
  ELSE IF s.lockedRole = "none" THEN s
  ELSE applyVote(s, msg.target, msg.at)

onVote(s, msg) ==
  IF staleRound(s, msg) THEN s
  ELSE IF s.lockedRole = "none" THEN s
  ELSE IF msg.target # s.lockedRole
    THEN ensureRoleFromSessionRoles([s EXCEPT !.voteIgnoreMessage = "mismatch"],
                                    "vote-mismatch")
  ELSE applyVote(s, msg.target, msg.at)

\* Variant: a role already selected locally is kept.
onAssignRolesKeepingRole(s, msg) ==
  LET mode == s.connectionMode
      myRole == IF s.lockedRole # "none" THEN s.lockedRole
                ELSE IF mode = "offer" THEN msg.hostRole ELSE msg.guestRole
      adopted == [s EXCEPT !.sessionId = msg.sessionId,
                           !.sessionRoles = [hostRole |-> msg.hostRole,
                                             guestRole |-> msg.guestRole],
                           !.roleLocked = TRUE,
                           !.lockedRole = myRole]
  IN  IF mode = "answer"
        THEN sendMessage(adopted, [type |-> "assignRolesAck",
                                   sessionId |-> msg.sessionId, myRole |-> myRole])
        ELSE adopted

onAssignRoles(s, msg) ==
  LET mode == s.connectionMode
      myRole == IF mode = "offer" THEN msg.hostRole ELSE msg.guestRole
      adopted == [s EXCEPT !.sessionId = msg.sessionId,
                           !.sessionRoles = [hostRole |-> msg.hostRole,
                                             guestRole |-> msg.guestRole],
                           !.roleLocked = TRUE,
                           !.lockedRole = myRole]
  IN  IF mode = "answer"
        THEN sendMessage(adopted, [type |-> "assignRolesAck",
                                   sessionId |-> msg.sessionId, myRole |-> myRole])
        ELSE adopted

\* Variant: an ack confirms whatever session it names.
onAssignRolesAckAnySession(s, msg) ==
  clearAssignRolesRetryTimer([s EXCEPT !.rolesConfirmed = TRUE])

onAssignRolesAck(s, msg) ==
  IF s.sessionId = 0 \/ msg.sessionId # s.sessionId
    THEN s
    ELSE clearAssignRolesRetryTimer([s EXCEPT !.rolesConfirmed = TRUE])

\* Variant: a proposal that is pending is not replaced.
onProposeEndChangeKeepingFirst(s, msg) ==
  IF staleRound(s, msg) \/ s.incomingEndChange # 0 THEN s
  ELSE [s EXCEPT !.incomingEndChange = msg.proposedEndTime]

onProposeEndChange(s, msg) ==
  IF staleRound(s, msg) THEN s
  ELSE [s EXCEPT !.incomingEndChange = msg.proposedEndTime]

handleIncomingMessage(s, msg, nowSec) ==
  CASE msg.type = "start" -> onStart(s, msg, nowSec)
    [] msg.type = "stateSnapshot" -> onStateSnapshot(s, msg, nowSec)
    [] msg.type = "vote" -> onVote(s, msg)
    [] msg.type = "assignRoles" -> onAssignRoles(s, msg)
    [] msg.type = "assignRolesAck" -> onAssignRolesAck(s, msg)
    [] msg.type = "proposeEndChange" -> onProposeEndChange(s, msg)
    [] msg.type = "acceptEndChange" ->
         IF staleRound(s, msg) THEN s
         ELSE applyEndTimeUpdate(s, msg.proposedEndTime)
    [] msg.type = "rejectEndChange" -> s
    [] msg.type = "proposeEndNow" ->
         IF staleRound(s, msg) THEN s
         ELSE [s EXCEPT !.incomingEndNow = TRUE]
    [] msg.type = "acceptEndNow" ->
         IF staleRound(s, msg) THEN s
         ELSE applyImmediateEndLocal(s, nowSec)
    [] msg.type = "rejectEndNow" -> s
    [] OTHER -> s

\* --------------------------------------------------------------- effects
\* An effect runs after a render whose dependencies differ from those of the
\* previous render.  prev is the state previously rendered, c the state now
\* rendered (what the effect closures read), s the state the earlier effects
\* of this render have produced (refs, store, scheduled updates).
\* "touched" marks a render that received newly created scores / voteEvents
\* objects, which changes the identity of buildSnapshotFromState.

snapshotDepsChanged(prev, c) ==
  \/ c.touched
  \/ prev.currentRoundId # c.currentRoundId
  \/ prev.startTimeSec # c.startTimeSec
  \/ prev.endTimeSec # c.endTimeSec
  \/ prev.gameState # c.gameState
  \/ prev.lockedRole # c.lockedRole
  \/ prev.sessionId # c.sessionId

\* The interval callback of the round timer, closed over c.endTimeSec.
\* Variant: the remaining time stops at 0 and the round keeps running.
updateRemainingNeverEnding(c, s, nowSec) ==
  [s EXCEPT !.timeRemaining = max(0, c.endTimeSec - nowSec)]

updateRemaining(c, s, nowSec) ==
  LET remaining == c.endTimeSec - nowSec
  IN  IF remaining <= 0
        THEN [s EXCEPT !.timeRemaining = 0, !.gameState = "ended", !.timerRef = FALSE]
        ELSE [s EXCEPT !.timeRemaining = remaining]

timerEffect(prev, c, s, nowSec) ==
  IF prev.endTimeSec = c.endTimeSec /\ prev.gameState = c.gameState
    THEN s
    ELSE LET cleaned == [s EXCEPT !.timerRef = FALSE]
         IN  IF c.endTimeSec = 0 \/ c.gameState # "running"
               THEN cleaned
               ELSE [updateRemaining(c, cleaned, nowSec) EXCEPT !.timerRef = TRUE]

persistEffect(prev, c, s, nowSec) ==
  IF ~snapshotDepsChanged(prev, c) \/ ~canBuildSnapshot(c)
    THEN s
    ELSE upsertHistoryIndex(persistSnapshot(c, s, nowSec), persistedSnapshot(c, s, nowSec))

endedEffect(prev, c, s, nowSec) ==
  IF /\ prev.currentRoundId = c.currentRoundId
     /\ prev.endTimeSec = c.endTimeSec
     /\ prev.gameState = c.gameState
    THEN s
  ELSE IF c.gameState # "ended" THEN s
  ELSE IF c.currentRoundId # 0 /\ c.endTimeSec # 0 /\ nowSec > c.endTimeSec
    THEN [s EXCEPT !.lastSnapshotId = 0]
  ELSE s

\* Variant: the effect does not look at the side the peer is on.
assignRolesEffectAnyMode(prev, c, s, sid) ==
  IF prev.connectionStatus = c.connectionStatus /\ prev.lockedRole = c.lockedRole
    THEN s
  ELSE IF c.connectionStatus # "connected"
    THEN [clearAssignRolesRetryTimer(s) EXCEPT !.assignRolesRetryCount = 0,
                                                !.rolesConfirmed = FALSE]
  ELSE IF c.lockedRole = "none" THEN s
  ELSE IF s.assignRolesRetryCount > 0 /\ s.hasSentAssignRoles THEN s
  ELSE IF ~sendAssignRolesSent(s) THEN s
  ELSE [sendAssignRolesOnce(s, sid) EXCEPT !.assignRolesRetryCount = 1,
                                           !.rolesConfirmed = FALSE,
                                           !.assignRolesRetryTimer = TRUE]

assignRolesEffect(prev, c, s, sid) ==
  IF prev.connectionStatus = c.connectionStatus /\ prev.lockedRole = c.lockedRole
    THEN s
  ELSE IF c.connectionStatus # "connected"
    THEN [clearAssignRolesRetryTimer(s) EXCEPT !.assignRolesRetryCount = 0,
                                                !.rolesConfirmed = FALSE]
  ELSE IF s.connectionMode # "offer" THEN s
  ELSE IF c.lockedRole = "none" THEN s
  ELSE IF s.assignRolesRetryCount > 0 /\ s.hasSentAssignRoles THEN s
  ELSE IF ~sendAssignRolesSent(s) THEN s
  ELSE [sendAssignRolesOnce(s, sid) EXCEPT !.assignRolesRetryCount = 1,
                                           !.rolesConfirmed = FALSE,
                                           !.assignRolesRetryTimer = TRUE]

\* Variant: the one-shot flag is not consulted.
snapshotPushEffectUnguarded(prev, c, s, nowSec) ==
  IF ~snapshotDepsChanged(prev, c) /\ prev.connectionStatus = c.connectionStatus
    THEN s
  ELSE IF c.connectionStatus # "connected"
    THEN [s EXCEPT !.hasSentStateSnapshot = FALSE]
  ELSE IF s.connectionMode # "offer" \/ ~canBuildSnapshot(c) \/ s.channel # "open" THEN s
  ELSE LET snapshot == buildSnapshotFromState(
                         [c EXCEPT !.snapshotVersion = s.snapshotVersion], nowSec)
       IN  [s EXCEPT !.out = Append(@, [type |-> "stateSnapshot",
                                        roundId |-> snapshot.gameId,
                                        payload |-> snapshot]),
                     !.hasSentStateSnapshot = TRUE]

snapshotPushEffect(prev, c, s, nowSec) ==
  IF ~snapshotDepsChanged(prev, c) /\ prev.connectionStatus = c.connectionStatus
    THEN s
  ELSE IF c.connectionStatus # "connected"
    THEN [s EXCEPT !.hasSentStateSnapshot = FALSE]
  ELSE IF s.connectionMode # "offer" THEN s
  ELSE IF ~canBuildSnapshot(c) THEN s
  ELSE IF s.hasSentStateSnapshot THEN s
  ELSE IF s.channel # "open" THEN s
  ELSE LET snapshot == buildSnapshotFromState(
                         [c EXCEPT !.snapshotVersion = s.snapshotVersion], nowSec)
       IN  [s EXCEPT !.out = Append(@, [type |-> "stateSnapshot",
                                        roundId |-> snapshot.gameId,
                                        payload |-> snapshot]),
                     !.hasSentStateSnapshot = TRUE]

\* The effects of one render, in the order the component declares them; each
\* effect sees the state left by the one before it.
effects(prev, c, nowSec, sid) ==
  LET timed == {timerEffect(prev, c, c, nowSec)}
      persisted == {persistEffect(prev, c, s, nowSec) : s \in timed}
      ended == {endedEffect(prev, c, s, nowSec) : s \in persisted}
      assigned == {assignRolesEffect(prev, c, s, sid) : s \in ended}
      pushed == {snapshotPushEffect(prev, c, s, nowSec) : s \in assigned}
  IN  CHOOSE r \in {[s EXCEPT !.touched = FALSE] : s \in pushed} : TRUE

\* --------------------------------------------------------------- actions
NoInput == [type |-> "none"]

Init ==
  /\ st = [p \in Peers |-> InitialPeer]
  /\ inbox = [p \in Peers |-> <<>>]
  /\ now = 1
  /\ nextGameId = 1
  /\ nextSessionId = 1
  /\ flickers = 0
  /\ proposals = 0
  /\ last = [op |-> "mount", peer |-> "h", msg |-> NoInput, sent |-> <<>>, wrote |-> <<>>]
  /\ assignRolesSent = [p \in Peers |-> 0]
  /\ stateSnapshotSent = [p \in Peers |-> FALSE]

\* Peer p, last rendered with state prev (st[p], or the initial state of a
\* fresh mount), ran a handler that left it in state handled.  The handler's state
\* updates are rendered (r1), the updates made by effects are rendered in turn
\* (r2, r), until a render changes nothing: the third render never finds
\* changed dependencies.  The messages sent travel to the other peer, and the
\* step is recorded in last.  received = 1 when the handler consumed the head
\* of p's inbox.
CommitFrom(p, prev, handled, op, msg, received) ==
  \E c \in {handled} :
  \E r1 \in {effects(prev, c, now, nextSessionId)} :
  \E r2 \in {effects([c EXCEPT !.touched = FALSE], r1, now, nextSessionId)} :
  \E r \in {effects(r1, r2, now, nextSessionId)} :
      /\ Len(inbox[other(p)]) + Len(r.out) <= MaxQueue
      /\ r.snapshotVersion <= MaxVersion
      /\ Len(r.voteEvents) <= MaxVotes
      /\ r.sessionId <= MaxSessions
      /\ st' = [st EXCEPT ![p] = [r EXCEPT !.out = <<>>, !.wrote = <<>>]]
      /\ inbox' = [q \in Peers |->
                     IF q = p THEN SubSeq(inbox[p], 1 + received, Len(inbox[p]))
                     ELSE inbox[q] \o r.out]
      /\ nextSessionId' = IF r.sessionId = nextSessionId
                            THEN nextSessionId + 1 ELSE nextSessionId
      /\ last' = [op |-> op, peer |-> p, msg |-> msg, sent |-> r.out, wrote |-> r.wrote]
      /\ assignRolesSent' =
           [assignRolesSent EXCEPT ![p] =
              IF r.connectionStatus # "connected" THEN 0
              ELSE @ + Cardinality({i \in 1..Len(r.out) : r.out[i].type = "assignRoles"})]
      /\ stateSnapshotSent' =
           [stateSnapshotSent EXCEPT ![p] =
              IF r.connectionStatus # "connected" THEN FALSE
              ELSE @ \/ \E i \in 1..Len(r.out) : r.out[i].type = "stateSnapshot"]

\* One handler of peer p and the renders that follow it, seen from the state
\* the component was rendered with.
Commit(p, handled, op, msg, received) ==
  CommitFrom(p, st[p], handled, op, msg, received)

\* Variant: a selection replaces a locked role.
selectRoleOverwriting(s, nextRole) ==
  [s EXCEPT !.lockedRole = nextRole, !.roleLocked = TRUE]

\* The body of handleSelectRole.
selectRole(s, nextRole) ==
  IF s.roleLocked /\ s.lockedRole # "none" /\ s.lockedRole # nextRole
    THEN s
    ELSE [s EXCEPT !.lockedRole = nextRole, !.roleLocked = TRUE]

\* Role buttons (disabled while roleLocked).
handleSelectRole(p, nextRole) ==
  LET s == st[p]
  IN  /\ ~s.roleLocked
      /\ Commit(p, selectRole(s, nextRole),
                "handleSelectRole", [type |-> "input", role |-> nextRole], 0)
      /\ UNCHANGED <<now, nextGameId, flickers, proposals>>

\* handleSelectRole called while the role is locked.  The page disables the
\* role buttons then, so no click gets here; the handler carries its own check
\* of the lock, and this action exercises it.
handleSelectRoleLocked(p, nextRole) ==
  LET s == st[p]
  IN  /\ s.roleLocked
      /\ Commit(p, selectRole(s, nextRole),
                "handleSelectRole", [type |-> "input", role |-> nextRole], 0)
      /\ UNCHANGED <<now, nextGameId, flickers, proposals>>

\* Signalling.  Peer h creates the offer and the data channel; peer g applies
\* the offer and answers; h applies the answer; the channel then reaches g
\* (ondatachannel) and opens on each side (onopen).
handleCreateOffer ==
  LET s == st["h"]
  IN  /\ s.connectionStatus = "idle"
      /\ Commit("h", [s EXCEPT !.connectionMode = "offer",
                               !.connectionStatus = "creating-offer",
                               !.channel = "created"],
                "handleCreateOffer", NoInput, Len(inbox["h"]))
      /\ UNCHANGED <<now, nextGameId, flickers, proposals>>

handleApplyOfferAndCreateAnswer ==
  LET s == st["g"]
  IN  /\ s.connectionStatus = "idle"
      /\ st["h"].channel = "created"
      /\ Commit("g", [resetSessionAndRolesForNewAnswerJoin(s) EXCEPT
                         !.connectionMode = "answer",
                         !.channel = "none",
                         !.connectionStatus = "waiting-answer"],
                "handleApplyOfferAndCreateAnswer", NoInput, Len(inbox["g"]))
      /\ UNCHANGED <<now, nextGameId, flickers, proposals>>

\* The page is loaded again: the component is unmounted (cleanupConnection
\* closes the channel; what was in flight to this peer is lost) and mounted
\* anew with its initial state, its local storage and an optional gid in the
\* address.  The resume effect runs after the first render, the other effects
\* after the render its hydration causes.
reload(p, gidFromUrl) ==
  \E fresh \in {mount(st[p])} :
      /\ CommitFrom(p, fresh, resumeOnLoad(fresh, gidFromUrl, now),
                    "reload", [type |-> "input", gid |-> gidFromUrl], Len(inbox[p]))
      /\ UNCHANGED <<now, nextGameId, flickers, proposals>>

\* "Create offer" clicked again, with a connection or an attempt in place:
\* createPeerConnection closes the old connection and channel, and what the
\* old channel still carried towards h is lost.
handleCreateOfferAgain ==
  LET s == st["h"]
  IN  /\ s.connectionStatus # "idle"
      /\ Commit("h", [s EXCEPT !.connectionMode = "offer",
                               !.connectionStatus = "creating-offer",
                               !.channel = "created"],
                "handleCreateOffer", NoInput, Len(inbox["h"]))
      /\ UNCHANGED <<now, nextGameId, flickers, proposals>>

\* "Apply offer" clicked again on h's new offer: g closes its old connection
\* and channel, and what the old channel still carried towards g is lost.
handleApplyOfferAndCreateAnswerAgain ==
  LET s == st["g"]
  IN  /\ s.connectionStatus # "idle"
      /\ st["h"].channel = "created"
      /\ Commit("g", [resetSessionAndRolesForNewAnswerJoin(s) EXCEPT
                         !.connectionMode = "answer",
                         !.channel = "none",
                         !.connectionStatus = "waiting-answer"],
                "handleApplyOfferAndCreateAnswer", NoInput, Len(inbox["g"]))
      /\ UNCHANGED <<now, nextGameId, flickers, proposals>>

\* The connection handlers with either peer on either side: peer p creates
\* the offer (whatever connection it has is closed), the other peer applies
\* it and answers, p applies the answer, the answering peer is handed the
\* channel.  What a closed channel still carried towards its peer is lost.
handleCreateOfferBy(p) ==
  LET s == st[p]
  IN  /\ Commit(p, [s EXCEPT !.connectionMode = "offer",
                             !.connectionStatus = "creating-offer",
                             !.channel = "created"],
                "handleCreateOffer", NoInput, Len(inbox[p]))
      /\ UNCHANGED <<now, nextGameId, flickers, proposals>>

handleApplyOfferAndCreateAnswerBy(p) ==
  LET s == st[p]
  IN  /\ st[other(p)].channel = "created"
      /\ Commit(p, [resetSessionAndRolesForNewAnswerJoin(s) EXCEPT
                       !.connectionMode = "answer",
                       !.channel = "none",
                       !.connectionStatus = "waiting-answer"],
                "handleApplyOfferAndCreateAnswer", NoInput, Len(inbox[p]))
      /\ UNCHANGED <<now, nextGameId, flickers, proposals>>

handleApplyRemoteAnswerBy(p) ==
  LET s == st[p]
  IN  /\ s.channel = "created"
      /\ st[other(p)].connectionMode = "answer"
      /\ st[other(p)].connectionStatus = "waiting-answer"
      /\ Commit(p, [s EXCEPT !.channel = "connecting"],
                "handleApplyRemoteAnswer", NoInput, Len(inbox[p]))
      /\ UNCHANGED <<now, nextGameId, flickers, proposals>>

ondatachannelBy(p) ==
  LET s == st[p]
  IN  /\ s.channel = "none"
      /\ s.connectionMode = "answer"
      /\ s.connectionStatus = "waiting-answer"
      /\ st[other(p)].connectionMode = "offer"
      /\ st[other(p)].channel \in {"connecting", "open"}
      /\ Commit(p, [s EXCEPT !.channel = "connecting"], "ondatachannel", NoInput, 0)
      /\ UNCHANGED <<now, nextGameId, flickers, proposals>>

\* Whatever g sent over a connection h has closed since never reaches h.
handleApplyRemoteAnswer ==
  LET s == st["h"]
  IN  /\ s.channel = "created"
      /\ st["g"].connectionStatus = "waiting-answer"
      /\ Commit("h", [s EXCEPT !.channel = "connecting"],
                "handleApplyRemoteAnswer", NoInput, Len(inbox["h"]))
      /\ UNCHANGED <<now, nextGameId, flickers, proposals>>

ondatachannel ==
  LET s == st["g"]
  IN  /\ s.channel = "none"
      /\ s.connectionStatus = "waiting-answer"
      /\ st["h"].channel \in {"connecting", "open"}
      /\ Commit("g", [s EXCEPT !.channel = "connecting"], "ondatachannel", NoInput, 0)
      /\ UNCHANGED <<now, nextGameId, flickers, proposals>>

onopen(p) ==
  LET s == st[p]
  IN  /\ s.channel = "connecting"
      /\ Commit(p, [s EXCEPT !.channel = "open", !.connectionStatus = "connected"],
                "onopen", NoInput, 0)
      /\ UNCHANGED <<now, nextGameId, flickers, proposals>>

\* pc.oniceconnectionstatechange / pc.onconnectionstatechange reporting
\* "disconnected": a transient loss, the data channel stays open.
oniceconnectionstatechange(p) ==
  LET s == st[p]
  IN  /\ s.connectionStatus = "connected"
      /\ flickers < MaxFlickers
      /\ flickers' = flickers + 1
      /\ Commit(p, [s EXCEPT !.connectionStatus = "error"],
                "oniceconnectionstatechange", NoInput, 0)
      /\ UNCHANGED <<now, nextGameId, proposals>>

\* pc.onconnectionstatechange reporting "connected".
onconnectionstatechange(p) ==
  LET s == st[p]
  IN  /\ s.channel \in {"connecting", "open"}
      /\ s.connectionStatus # "connected"
      /\ Commit(p, [s EXCEPT !.connectionStatus = "connected"],
                "onconnectionstatechange", NoInput, 0)
      /\ UNCHANGED <<now, nextGameId, flickers, proposals>>

\* End times a user can enter (datetime-local input, parsed to Unix seconds).
EndTimes == 1..(MaxTime + 1)

\* Variant: the entered end time is not compared with the clock.
startAcceptedAnyTime(s, endTimeUnix, nowSec) ==
  /\ s.lockedRole # "none"
  /\ s.connectionStatus = "connected"

startAccepted(s, endTimeUnix, nowSec) ==
  /\ s.lockedRole # "none"
  /\ s.connectionStatus = "connected"
  /\ endTimeUnix > nowSec

\* "Start" button (disabled unless connected and not running).
handleStartGame(p, endTimeUnix) ==
  LET s == st[p]
      roles == s.sessionRoles
      hostRole == IF roles # NoRoles THEN roles.hostRole
                  ELSE IF s.connectionMode = "offer" THEN s.lockedRole
                  ELSE opposite(s.lockedRole)
      guestRole == IF roles # NoRoles THEN roles.guestRole
                   ELSE IF s.connectionMode = "offer" THEN opposite(s.lockedRole)
                   ELSE s.lockedRole
      gameId == nextGameId
      prepared == [s EXCEPT !.sessionRoles = [hostRole |-> hostRole, guestRole |-> guestRole],
                            !.snapshotVersion = 0]
      begun == beginGameWithEndTime(prepared, gameId, now, endTimeUnix)
      started == sendMessage(begun, [type |-> "start", roundId |-> gameId,
                                     endTime |-> endTimeUnix,
                                     roles |-> [hostRole |-> hostRole,
                                                guestRole |-> guestRole]])
      accepted == startAccepted(s, endTimeUnix, now)
  IN  /\ s.connectionStatus = "connected" /\ s.gameState # "running"
      /\ accepted => nextGameId <= MaxRounds
      /\ Commit(p, IF accepted THEN started ELSE s,
                "handleStartGame", [type |-> "input", endTime |-> endTimeUnix], 0)
      /\ nextGameId' = IF accepted THEN nextGameId + 1 ELSE nextGameId
      /\ UNCHANGED <<now, flickers, proposals>>

\* Variant: a vote is admitted whatever the state of the round.
voteAdmittedAfterEnd(s) ==
  /\ s.lockedRole # "none"
  /\ s.connectionStatus = "connected"
  /\ s.startTimeSec # 0 /\ s.currentRoundId # 0

voteAdmitted(s) ==
  /\ s.lockedRole # "none"
  /\ s.connectionStatus = "connected"
  /\ s.gameState = "running" /\ s.startTimeSec # 0 /\ s.currentRoundId # 0

\* Variant: a peer votes for its own role.
voteTargetOwn(s) == s.lockedRole

voteTarget(s) == opposite(s.lockedRole)

\* "Vote" button (disabled unless connected, running and a role is locked).
handleVote(p) ==
  LET s == st[p]
      elapsed == max(0, now - s.startTimeSec)
      target == voteTarget(s)
  IN  /\ s.connectionStatus = "connected" /\ s.gameState = "running"
      /\ s.lockedRole # "none"
      /\ Commit(p,
                IF voteAdmitted(s)
                  THEN sendMessage(applyVote(s, target, elapsed),
                                   [type |-> "vote", roundId |-> s.currentRoundId,
                                    target |-> target, at |-> elapsed])
                  ELSE s,
                "handleVote", NoInput, 0)
      /\ UNCHANGED <<now, nextGameId, flickers, proposals>>

\* handleVote called although the button is disabled (not connected, round
\* not running, or no role): the handler's own tests decide.
handleVoteDisabled(p) ==
  LET s == st[p]
      elapsed == max(0, now - s.startTimeSec)
      target == voteTarget(s)
  IN  /\ ~(s.connectionStatus = "connected" /\ s.gameState = "running"
            /\ s.lockedRole # "none")
      /\ Commit(p,
                IF voteAdmitted(s)
                  THEN sendMessage(applyVote(s, target, elapsed),
                                   [type |-> "vote", roundId |-> s.currentRoundId,
                                    target |-> target, at |-> elapsed])
                  ELSE s,
                "handleVote", NoInput, 0)
      /\ UNCHANGED <<now, nextGameId, flickers, proposals>>

proposalAllowed(s) ==
  s.connectionStatus = "connected" /\ s.gameState = "running" /\ s.currentRoundId # 0

\* Variant: the proposed time is not compared with the clock.
proposeEndChangeAnyTime(s, proposedUnix, nowSec) ==
  IF proposalAllowed(s)
    THEN sendMessage(s, [type |-> "proposeEndChange",
                         roundId |-> s.currentRoundId,
                         proposedEndTime |-> proposedUnix])
    ELSE s

\* The body of handleProposeEndChange (the error text it sets is left out).
proposeEndChange(s, proposedUnix, nowSec) ==
  IF s.connectionStatus # "connected" THEN s
  ELSE IF s.gameState # "running" \/ s.currentRoundId = 0 THEN s
  ELSE IF proposedUnix <= nowSec THEN s
  ELSE sendMessage(s, [type |-> "proposeEndChange",
                       roundId |-> s.currentRoundId,
                       proposedEndTime |-> proposedUnix])

\* "Propose new end time" button (disabled unless proposalAllowed).
handleProposeEndChange(p, proposedUnix) ==
  LET s == st[p]
  IN  /\ proposalAllowed(s)
      /\ proposals < MaxProposals
      /\ proposals' = proposals + 1
      /\ Commit(p, proposeEndChange(s, proposedUnix, now),
                "handleProposeEndChange",
                [type |-> "input", proposedEndTime |-> proposedUnix], 0)
      /\ UNCHANGED <<now, nextGameId, flickers>>

\* handleProposeEndChange called while its button is disabled.
handleProposeEndChangeDisabled(p, proposedUnix) ==
  LET s == st[p]
  IN  /\ ~proposalAllowed(s)
      /\ Commit(p, proposeEndChange(s, proposedUnix, now),
                "handleProposeEndChange",
                [type |-> "input", proposedEndTime |-> proposedUnix], 0)
      /\ UNCHANGED <<now, nextGameId, flickers, proposals>>

\* "End now" button (disabled unless proposalAllowed).
handleProposeEndNow(p) ==
  LET s == st[p]
  IN  /\ proposalAllowed(s)
      /\ proposals < MaxProposals
      /\ proposals' = proposals + 1
      /\ Commit(p, sendMessage(s, [type |-> "proposeEndNow", roundId |-> s.currentRoundId]),
                "handleProposeEndNow", NoInput, 0)
      /\ UNCHANGED <<now, nextGameId, flickers>>

\* The end-time dialog is open while incomingEndChange is set.
handleAcceptIncomingEndChange(p) ==
  LET s == st[p]
  IN  /\ s.incomingEndChange # 0
      /\ Commit(p,
                IF s.currentRoundId = 0 THEN s
                ELSE [sendMessage(applyEndTimeUpdate(s, s.incomingEndChange),
                                  [type |-> "acceptEndChange",
                                   roundId |-> s.currentRoundId,
                                   proposedEndTime |-> s.incomingEndChange])
                        EXCEPT !.incomingEndChange = 0],
                "handleAcceptIncomingEndChange", NoInput, 0)
      /\ UNCHANGED <<now, nextGameId, flickers, proposals>>

\* Variant: the rejected end time is applied all the same.
handleRejectIncomingEndChangeApplying(p) ==
  LET s == st[p]
  IN  /\ s.incomingEndChange # 0
      /\ Commit(p,
                IF s.currentRoundId = 0 THEN s
                ELSE [sendMessage(applyEndTimeUpdate(s, s.incomingEndChange),
                                  [type |-> "rejectEndChange",
                                   roundId |-> s.currentRoundId,
                                   proposedEndTime |-> s.incomingEndChange])
                        EXCEPT !.incomingEndChange = 0],
                "handleRejectIncomingEndChange", NoInput, 0)
      /\ UNCHANGED <<now, nextGameId, flickers, proposals>>

handleRejectIncomingEndChange(p) ==
  LET s == st[p]
  IN  /\ s.incomingEndChange # 0
      /\ Commit(p,
                IF s.currentRoundId = 0 THEN s
                ELSE [sendMessage(s, [type |-> "rejectEndChange",
                                      roundId |-> s.currentRoundId,
                                      proposedEndTime |-> s.incomingEndChange])
                        EXCEPT !.incomingEndChange = 0],
                "handleRejectIncomingEndChange", NoInput, 0)
      /\ UNCHANGED <<now, nextGameId, flickers, proposals>>

\* The end-now dialog is open while incomingEndNow is set.
handleAcceptIncomingEndNow(p) ==
  LET s == st[p]
  IN  /\ s.incomingEndNow
      /\ Commit(p,
                IF s.currentRoundId = 0 THEN s
                ELSE sendMessage(applyImmediateEndLocal(s, now),
                                 [type |-> "acceptEndNow", roundId |-> s.currentRoundId]),
                "handleAcceptIncomingEndNow", NoInput, 0)
      /\ UNCHANGED <<now, nextGameId, flickers, proposals>>

handleRejectIncomingEndNow(p) ==
  LET s == st[p]
  IN  /\ s.incomingEndNow
      /\ Commit(p,
                IF s.currentRoundId = 0 THEN s
                ELSE sendMessage([s EXCEPT !.incomingEndNow = FALSE],
                                 [type |-> "rejectEndNow", roundId |-> s.currentRoundId]),
                "handleRejectIncomingEndNow", NoInput, 0)
      /\ UNCHANGED <<now, nextGameId, flickers, proposals>>

\* "New game" (handleNewGameClick and its confirmation).
\* The unmount cleanup of the component.
cleanupConnection(s) ==
  [clearAssignRolesRetryTimer(resetGameState([s EXCEPT !.timerRef = FALSE])) EXCEPT
     !.channel = "none",
     !.connectionStatus = "idle",
     !.sessionId = 0,
     !.hasSentAssignRoles = FALSE, !.hasSentStateSnapshot = FALSE,
     !.assignRolesRetryCount = 0,
     !.rolesConfirmed = FALSE,
     !.sessionRoles = NoRoles,
     !.lockedRole = "none", !.roleLocked = FALSE]

\* "Delete" button of an entry of the history list.
handleDeleteHistoryGame(p, gameId) ==
  LET s == st[p]
      kept == {i \in 1..Len(s.historyIndex) : s.historyIndex[i].gameId # gameId}
      keep(item) == item.gameId # gameId
  IN  /\ Cardinality(kept) < Len(s.historyIndex)
      /\ Commit(p,
                [s EXCEPT !.historyIndex = SelectSeq(@, keep),
                          !.snapshotStore = [@ EXCEPT ![gameId] = NoSnapshot]],
                "handleDeleteHistoryGame", [type |-> "input", gameId |-> gameId], 0)
      /\ UNCHANGED <<now, nextGameId, flickers, proposals>>

handleStartNewRound(p) ==
  LET s == st[p]
      prevGameId == s.currentRoundId
      reset == resetGameState(s)
      lastId == s.lastSnapshotId
      stored ==
        IF prevGameId # 0
          THEN [reset EXCEPT !.snapshotStore = [@ EXCEPT ![prevGameId] = NoSnapshot],
                             !.lastSnapshotId = IF lastId = prevGameId THEN 0 ELSE lastId]
          ELSE [reset EXCEPT !.snapshotStore =
                                IF lastId # 0 THEN [@ EXCEPT ![lastId] = NoSnapshot] ELSE @,
                             !.lastSnapshotId = 0]
  IN  /\ Commit(p, [clearAssignRolesRetryTimer(stored) EXCEPT
                      !.sessionId = 0,
                      !.hasSentAssignRoles = FALSE, !.hasSentStateSnapshot = FALSE,
                      !.assignRolesRetryCount = 0,
                      !.rolesConfirmed = FALSE,
                      !.sessionRoles = NoRoles,
                      !.lockedRole = "none", !.roleLocked = FALSE],
                "handleStartNewRound", NoInput, 0)
      /\ UNCHANGED <<now, nextGameId, flickers, proposals>>

\* channel.onmessage: the head of p's inbox is parsed and handled.
onmessage(p) ==
  LET s == st[p]
  IN  /\ inbox[p] # <<>>
      /\ s.channel = "open"
      /\ Commit(p, handleIncomingMessage(s, Head(inbox[p]), now),
                "onmessage", Head(inbox[p]), 1)
      /\ UNCHANGED <<now, nextGameId, flickers, proposals>>

\* The interval callback of the round timer fires.
tick(p) ==
  LET s == st[p]
  IN  /\ s.timerRef
      /\ Commit(p, updateRemaining(s, s, now), "tick", NoInput, 0)
      /\ UNCHANGED <<now, nextGameId, flickers, proposals>>

\* The timeout callback set by scheduleRetry fires.
\* Variant: the timeout callback does not look at the attempt counter.
retryFiredUnbounded(s, sid) ==
  LET fired == [s EXCEPT !.assignRolesRetryTimer = FALSE]
  IN  IF s.rolesConfirmed THEN fired
      ELSE IF s.channel # "open" THEN fired
      ELSE IF ~sendAssignRolesSent(s) THEN fired
      ELSE [sendAssignRolesOnce(s, sid) EXCEPT
               !.assignRolesRetryCount = @ + 1,
               !.assignRolesRetryTimer = TRUE]

retryFired(s, sid) ==
  LET fired == [s EXCEPT !.assignRolesRetryTimer = FALSE]
  IN  IF s.rolesConfirmed THEN fired
      ELSE IF s.assignRolesRetryCount >= MaxAssignRolesAttempts THEN fired
      ELSE IF s.channel # "open" THEN fired
      ELSE IF ~sendAssignRolesSent(s) THEN fired
      ELSE [sendAssignRolesOnce(s, sid) EXCEPT
               !.assignRolesRetryCount = @ + 1,
               !.assignRolesRetryTimer = TRUE]

scheduleRetry(p) ==
  LET s == st[p]
  IN  /\ s.assignRolesRetryTimer
      /\ Commit(p, retryFired(s, nextSessionId), "scheduleRetry", NoInput, 0)
      /\ UNCHANGED <<now, nextGameId, flickers, proposals>>

\* A second passes on the (common) clock.
advanceClock ==
  /\ now < MaxTime
  /\ now' = now + 1
  /\ last' = [op |-> "advanceClock", peer |-> "h", msg |-> NoInput,
              sent |-> <<>>, wrote |-> <<>>]
  /\ UNCHANGED <<st, inbox, nextGameId, nextSessionId, flickers, proposals, assignRolesSent,
               stateSnapshotSent>>

Next ==
  \/ \E p \in Peers, r \in Roles : handleSelectRole(p, r)
  \/ handleCreateOffer
  \/ handleApplyOfferAndCreateAnswer
  \/ handleApplyRemoteAnswer
  \/ handleCreateOfferAgain
  \/ handleApplyOfferAndCreateAnswerAgain
  \/ \E p \in Peers : handleCreateOfferBy(p)
  \/ \E p \in Peers : handleApplyOfferAndCreateAnswerBy(p)
  \/ \E p \in Peers : handleApplyRemoteAnswerBy(p)
  \/ \E p \in Peers : ondatachannelBy(p)
  \/ ondatachannel
  \/ \E p \in Peers : onopen(p)
  \/ \E p \in Peers : oniceconnectionstatechange(p)
  \/ \E p \in Peers : onconnectionstatechange(p)
  \/ \E p \in Peers, e \in EndTimes : handleStartGame(p, e)
  \/ \E p \in Peers : handleVote(p)
  \/ \E p \in Peers, e \in EndTimes : handleProposeEndChange(p, e)
  \/ \E p \in Peers : handleProposeEndNow(p)
  \/ \E p \in Peers : handleAcceptIncomingEndChange(p)
  \/ \E p \in Peers : handleRejectIncomingEndChange(p)
  \/ \E p \in Peers : handleAcceptIncomingEndNow(p)
  \/ \E p \in Peers : handleRejectIncomingEndNow(p)
  \/ \E p \in Peers : handleStartNewRound(p)
  \/ \E p \in Peers, r \in Roles : handleSelectRoleLocked(p, r)
  \/ \E p \in Peers, e \in EndTimes : handleProposeEndChangeDisabled(p, e)
  \/ \E p \in Peers : handleVoteDisabled(p)
  \/ \E p \in Peers, gameId \in GameIds : handleDeleteHistoryGame(p, gameId)
  \/ \E p \in Peers, gidFromUrl \in 0..MaxRounds : reload(p, gidFromUrl)
  \/ \E p \in Peers : onmessage(p)
  \/ \E p \in Peers : tick(p)
  \/ \E p \in Peers : scheduleRetry(p)
  \/ advanceClock

Spec == Init /\ [][Next]_vars

\* ------------------------------------------------------------- scenarios
\* The component's full next-state relation is Next.  The scenarios below are
\* the same actions with the user's clicks narrowed, so that TLC explores each
\* of them completely; every behaviour of a scenario is a behaviour of Spec.

\* A game: either peer picks a role, the peers connect, peer h starts rounds,
\* both peers vote, rounds run out.
NextGame ==
  \/ \E p \in Peers, r \in Roles : handleSelectRole(p, r)
  \/ handleCreateOffer
  \/ handleApplyOfferAndCreateAnswer
  \/ handleApplyRemoteAnswer
  \/ ondatachannel
  \/ \E p \in Peers : onopen(p)
  \/ \E e \in EndTimes : handleStartGame("h", e)
  \/ \E p \in Peers : handleVote(p)
  \/ \E p \in Peers : onmessage(p)
  \/ \E p \in Peers : tick(p)
  \/ advanceClock

SpecGame == Init /\ [][NextGame]_vars

\* A negotiation: peer h plays red and starts one round; one proposal is made
\* by either peer and decided by the other; h's connection may drop and
\* recover once.
NegotiationRounds == 1
NegotiationProposals == 1

NextNegotiation ==
  \/ handleSelectRole("h", "red")
  \/ handleCreateOffer
  \/ handleApplyOfferAndCreateAnswer
  \/ handleApplyRemoteAnswer
  \/ ondatachannel
  \/ \E p \in Peers : onopen(p)
  \/ oniceconnectionstatechange("h")
  \/ onconnectionstatechange("h")
  \/ nextGameId <= NegotiationRounds /\ \E e \in EndTimes : handleStartGame("h", e)
  \/ proposals < NegotiationProposals
       /\ \E p \in Peers, e \in EndTimes : handleProposeEndChange(p, e)
  \/ proposals < NegotiationProposals /\ \E p \in Peers : handleProposeEndNow(p)
  \/ \E p \in Peers : handleAcceptIncomingEndChange(p)
  \/ \E p \in Peers : handleRejectIncomingEndChange(p)
  \/ \E p \in Peers : handleAcceptIncomingEndNow(p)
  \/ \E p \in Peers : handleRejectIncomingEndNow(p)
  \/ \E p \in Peers : onmessage(p)
  \/ \E p \in Peers : tick(p)
  \/ advanceClock

SpecNegotiation == Init /\ [][NextNegotiation]_vars

\* Stale messages: peer h holds red, starts rounds and votes; both peers may
\* propose (one proposal in all) and decide; peer g may leave its round with
\* "start new round".  Messages then reach g after it has dropped its round,
\* and reach h after its round has run out and it has started the next one.
StaleVotes == 1
StaleProposals == 1

NextStale ==
  \/ handleSelectRole("h", "red")
  \/ handleCreateOffer
  \/ handleApplyOfferAndCreateAnswer
  \/ handleApplyRemoteAnswer
  \/ ondatachannel
  \/ \E p \in Peers : onopen(p)
  \/ \E e \in EndTimes : handleStartGame("h", e)
  \/ Len(st["h"].voteEvents) < StaleVotes /\ handleVote("h")
  \/ proposals < StaleProposals /\ \E p \in Peers, e \in EndTimes : handleProposeEndChange(p, e)
  \/ proposals < StaleProposals /\ \E p \in Peers : handleProposeEndNow(p)
  \/ \E p \in Peers : handleAcceptIncomingEndChange(p)
  \/ \E p \in Peers : handleRejectIncomingEndChange(p)
  \/ \E p \in Peers : handleAcceptIncomingEndNow(p)
  \/ \E p \in Peers : handleRejectIncomingEndNow(p)
  \/ st["g"].currentRoundId # 0 /\ handleStartNewRound("g")
  \/ \E p \in Peers : onmessage(p)
  \/ \E p \in Peers : tick(p)
  \/ advanceClock

SpecStale == Init /\ [][NextStale]_vars

\* Role assignment: both peers may pick a role, connect, and handle what they
\* receive; the retry timer of peer h fires; h may lose and regain the
\* connected status and may leave its session with "start new round"; the
\* role handler is also called while a role is locked.  No round is played.
NextRoles ==
  \/ \E p \in Peers, r \in Roles : handleSelectRole(p, r)
  \/ \E p \in Peers, r \in Roles : handleSelectRoleLocked(p, r)
  \/ handleCreateOffer
  \/ handleApplyOfferAndCreateAnswer
  \/ handleApplyRemoteAnswer
  \/ ondatachannel
  \/ \E p \in Peers : onopen(p)
  \/ oniceconnectionstatechange("h")
  \/ \E p \in Peers : onconnectionstatechange(p)
  \/ handleStartNewRound("h")
  \/ \E p \in Peers : onmessage(p)
  \/ scheduleRetry("h")

SpecRoles == Init /\ [][NextRoles]_vars

\* Snapshots: peer h holds red, connects, starts rounds and may leave a round
\* with "start new round"; peer g votes once; h's connection may drop and
\* recover once.  The snapshots h pushes reach g in its current round, in
\* another round, or in no round.
SnapshotVotes == 1

NextSnapshot ==
  \/ handleSelectRole("h", "red")
  \/ handleCreateOffer
  \/ handleApplyOfferAndCreateAnswer
  \/ handleApplyRemoteAnswer
  \/ ondatachannel
  \/ \E p \in Peers : onopen(p)
  \/ oniceconnectionstatechange("h")
  \/ \E e \in EndTimes : handleStartGame("h", e)
  \/ Len(st["g"].voteEvents) < SnapshotVotes /\ handleVote("g")
  \/ handleStartNewRound("h")
  \/ \E p \in Peers : onmessage(p)
  \/ \E p \in Peers : tick(p)
  \/ advanceClock

SpecSnapshot == Init /\ [][NextSnapshot]_vars

\* Proposals: peer h holds red, connects and starts one round; either peer
\* proposes end times, past and future, one after the other and also while
\* the proposal button is disabled; a pending proposal may be accepted; h's
\* connection may drop and recover once.
ProposalRounds == 1

NextProposal ==
  \/ handleSelectRole("h", "red")
  \/ handleCreateOffer
  \/ handleApplyOfferAndCreateAnswer
  \/ handleApplyRemoteAnswer
  \/ ondatachannel
  \/ \E p \in Peers : onopen(p)
  \/ oniceconnectionstatechange("h")
  \/ nextGameId <= ProposalRounds /\ \E e \in EndTimes : handleStartGame("h", e)
  \/ \E p \in Peers, e \in EndTimes : handleProposeEndChange(p, e)
  \/ \E p \in Peers, e \in EndTimes : handleProposeEndChangeDisabled(p, e)
  \/ \E p \in Peers : handleAcceptIncomingEndChange(p)
  \/ \E p \in Peers : onmessage(p)
  \/ \E p \in Peers : tick(p)
  \/ advanceClock

SpecProposal == Init /\ [][NextProposal]_vars

\* History: peer h holds red, connects and starts rounds; a round ends when
\* its time is up or when a peer accepts the other's proposal to end it now;
\* h's connection may drop and recover once, which pushes its snapshot
\* again; either peer deletes entries of its history list.
HistoryProposals == 1

NextHistory ==
  \/ handleSelectRole("h", "red")
  \/ handleCreateOffer
  \/ handleApplyOfferAndCreateAnswer
  \/ handleApplyRemoteAnswer
  \/ ondatachannel
  \/ \E p \in Peers : onopen(p)
  \/ \E e \in EndTimes : handleStartGame("h", e)
  \/ oniceconnectionstatechange("h")
  \/ proposals < HistoryProposals /\ \E p \in Peers : handleProposeEndNow(p)
  \/ \E p \in Peers : handleAcceptIncomingEndNow(p)
  \/ \E p \in Peers, gameId \in 1..MaxRounds : handleDeleteHistoryGame(p, gameId)
  \/ \E p \in Peers : onmessage(p)
  \/ \E p \in Peers : tick(p)
  \/ advanceClock

SpecHistory == Init /\ [][NextHistory]_vars

\* Reconnection: peer h picks a role and the peers connect; h creates a new
\* offer and g applies it, any number of times; h may leave its session with
\* "start new round"; the retry timer of h fires.  No round is played.
NextReconnect ==
  \/ \E r \in Roles : handleSelectRole("h", r)
  \/ handleCreateOffer
  \/ handleApplyOfferAndCreateAnswer
  \/ handleApplyRemoteAnswer
  \/ handleCreateOfferAgain
  \/ handleApplyOfferAndCreateAnswerAgain
  \/ ondatachannel
  \/ \E p \in Peers : onopen(p)
  \/ handleStartNewRound("h")
  \/ \E p \in Peers : onmessage(p)
  \/ scheduleRetry("h")

SpecReconnect == Init /\ [][NextReconnect]_vars

\* Changing sides: peer h picks red, creates the offer and g answers; then g,
\* the answering side so far, creates an offer and h answers, so that h is
\* the answering side of the second connection; h starts one round; retry
\* timers fire and the round runs out.
SwapRounds == 1

NextSwap ==
  \/ handleSelectRole("h", "red")
  \/ handleCreateOffer
  \/ handleApplyOfferAndCreateAnswer
  \/ handleApplyRemoteAnswer
  \/ ondatachannel
  \/ st["g"].connectionMode = "answer" /\ handleCreateOfferBy("g")
  \/ handleApplyOfferAndCreateAnswerBy("h")
  \/ handleApplyRemoteAnswerBy("g")
  \/ ondatachannelBy("h")
  \/ \E p \in Peers : onopen(p)
  \/ nextGameId <= SwapRounds /\ \E e \in EndTimes : handleStartGame("h", e)
  \/ \E p \in Peers : onmessage(p)
  \/ \E p \in Peers : scheduleRetry(p)
  \/ \E p \in Peers : tick(p)
  \/ advanceClock

SpecSwap == Init /\ [][NextSwap]_vars

\* Timers: peer h holds red, connects and starts one round; h proposes another
\* end time once and g accepts; the clock advances.  The interval timers fire:
\* while a peer's round timer is active its callback runs again and again
\* (setInterval, 1000 ms), which is the fairness of tick.
ReloadRounds == 2
VoteRounds == 1
VoteVotes == 1
ConcurrentVotes == 1
ReloadProposals == 1
TimerRounds == 1
TimerProposals == 1

\* Rounds played over one connection and pages loaded again, with every gid
\* the address may carry (0: none).
NextReload ==
  \/ handleSelectRole("h", "red")
  \/ handleCreateOffer
  \/ handleApplyOfferAndCreateAnswer
  \/ handleApplyRemoteAnswer
  \/ ondatachannel
  \/ \E p \in Peers : onopen(p)
  \/ nextGameId <= ReloadRounds /\ \E e \in EndTimes : handleStartGame("h", e)
  \/ handleStartNewRound("h")
  \/ \E p \in Peers : onmessage(p)
  \/ \E p \in Peers : tick(p)
  \/ proposals < ReloadProposals /\ handleProposeEndNow("h")
  \/ handleAcceptIncomingEndNow("g")
  \/ \E gidFromUrl \in 0..MaxRounds : reload("g", gidFromUrl)
  \/ advanceClock

SpecReload == Init /\ [][NextReload]_vars

\* Rounds started by either peer over one connection, votes by both.
NextConcurrent ==
  \/ \E p \in Peers : handleSelectRole(p, "red")
  \/ handleCreateOffer
  \/ handleApplyOfferAndCreateAnswer
  \/ handleApplyRemoteAnswer
  \/ ondatachannel
  \/ \E p \in Peers : onopen(p)
  \/ \E p \in Peers, e \in EndTimes : handleStartGame(p, e)
  \/ \E p \in Peers : Len(st[p].voteEvents) < ConcurrentVotes /\ handleVote(p)
  \/ \E p \in Peers : onmessage(p)
  \/ \E p \in Peers : tick(p)
  \/ advanceClock

SpecConcurrent == Init /\ [][NextConcurrent]_vars

\* Vote requests in every situation: before the connection, without a role,
\* before, during and after a round, and while the connection is reported lost.
NextVote ==
  \/ \E p \in Peers : handleSelectRole(p, "red")
  \/ handleCreateOffer
  \/ handleApplyOfferAndCreateAnswer
  \/ handleApplyRemoteAnswer
  \/ ondatachannel
  \/ \E p \in Peers : onopen(p)
  \/ oniceconnectionstatechange("h")
  \/ nextGameId <= VoteRounds /\ \E e \in EndTimes : handleStartGame("h", e)
  \/ \E p \in Peers : Len(st[p].voteEvents) < VoteVotes /\ handleVote(p)
  \/ \E p \in Peers : handleVoteDisabled(p)
  \/ \E p \in Peers : onmessage(p)
  \/ \E p \in Peers : tick(p)
  \/ advanceClock

SpecVote == Init /\ [][NextVote]_vars

\* Role choice and connection set-up in every order.  The events the browser
\* delivers by itself (connection state, channel open, messages, the retry
\* timer) happen eventually; what the users do is left to them.
NextAssign ==
  \/ \E r \in Roles : handleSelectRole("h", r)
  \/ handleCreateOffer
  \/ handleApplyOfferAndCreateAnswer
  \/ handleApplyRemoteAnswer
  \/ ondatachannel
  \/ \E p \in Peers : onopen(p)
  \/ \E p \in Peers : onconnectionstatechange(p)
  \/ \E p \in Peers : onmessage(p)
  \/ scheduleRetry("h")

SpecAssign ==
  /\ Init /\ [][NextAssign]_vars
  /\ WF_vars(ondatachannel)
  /\ \A p \in Peers : WF_vars(onopen(p))
  /\ \A p \in Peers : WF_vars(onconnectionstatechange(p))
  /\ \A p \in Peers : WF_vars(onmessage(p))
  /\ WF_vars(scheduleRetry("h"))

NextTimer ==
  \/ handleSelectRole("h", "red")
  \/ handleCreateOffer
  \/ handleApplyOfferAndCreateAnswer
  \/ handleApplyRemoteAnswer
  \/ ondatachannel
  \/ \E p \in Peers : onopen(p)
  \/ nextGameId <= TimerRounds /\ \E e \in EndTimes : handleStartGame("h", e)
  \/ proposals < TimerProposals /\ \E e \in EndTimes : handleProposeEndChange("h", e)
  \/ handleAcceptIncomingEndChange("g")
  \/ \E p \in Peers : onmessage(p)
  \/ \E p \in Peers : tick(p)
  \/ advanceClock

SpecTimer == Init /\ [][NextTimer]_vars /\ \A p \in Peers : WF_vars(tick(p))

\* ---------------------------------------------------------------- claims
\* In an action formula, last' names the step being taken: its handler, the
\* peer that ran it, the message or input it was given, the messages it sent
\* and the snapshot versions it wrote.

RoundKeyedTypes ==
  {"vote", "proposeEndChange", "acceptEndChange", "rejectEndChange",
   "proposeEndNow", "acceptEndNow", "rejectEndNow"}

\* C1: a received start whose endTime is later than the receiver's clock
\* begins a fresh round whatever the receiver's round was: roundId and endTime
\* are the message's, the state is running, startTime is now, remaining is
\* endTime - now, both scores are zero and the vote log is empty.
C1_StartBeginsRound ==
  [][\A p \in Peers :
       (/\ last'.op = "onmessage" /\ last'.peer = p
        /\ last'.msg.type = "start" /\ last'.msg.endTime > now)
       => /\ st'[p].currentRoundId = last'.msg.roundId
          /\ st'[p].gameState = "running"
          /\ st'[p].startTimeSec = now
          /\ st'[p].endTimeSec = last'.msg.endTime
          /\ st'[p].timeRemaining = last'.msg.endTime - now
          /\ st'[p].scores = [red |-> 0, blue |-> 0]
          /\ st'[p].voteEvents = <<>>]_vars

\* A start has just replaced a round that was running and had votes.
C1_Witness ==
  /\ last.op = "onmessage" /\ last.msg.type = "start" /\ last.msg.endTime > now
  /\ st[last.peer].currentRoundId = 2
  /\ st[last.peer].snapshotStore[1].gameState = "running"
  /\ st[last.peer].snapshotStore[1].events # <<>>
  /\ st[last.peer].voteEvents = <<>>

\* C2: a start whose endTime is not later than the clock is rejected without
\* effect: received, it leaves the receiver's whole state unchanged and nothing
\* is sent; requested locally, it changes no state of either peer, takes no
\* round id and sends nothing.
C2_LateStartRejected ==
  [][\A p \in Peers :
       /\ (/\ last'.op = "onmessage" /\ last'.peer = p
           /\ last'.msg.type = "start" /\ last'.msg.endTime <= now)
          => st'[p] = st[p] /\ last'.sent = <<>>
       /\ (/\ last'.op = "handleStartGame" /\ last'.peer = p
           /\ last'.msg.endTime <= now)
          => /\ st' = st /\ inbox' = inbox
             /\ last'.sent = <<>> /\ nextGameId' = nextGameId]_vars

\* A peer that holds a role has just dropped a start that arrived too late.
C2_Witness ==
  /\ last.op = "onmessage" /\ last.msg.type = "start" /\ last.msg.endTime <= now
  /\ st[last.peer].lockedRole # "none"
  /\ st[last.peer].currentRoundId # last.msg.roundId

\* C3: a received vote or negotiation message whose roundId is not the
\* receiver's current roundId, or that finds the receiver without a round,
\* changes nothing at the receiver and is not answered.
C3_StaleMessageIgnored ==
  [][\A p \in Peers :
       (/\ last'.op = "onmessage" /\ last'.peer = p
        /\ last'.msg.type \in RoundKeyedTypes
        /\ (st[p].currentRoundId = 0 \/ last'.msg.roundId # st[p].currentRoundId))
       => st'[p] = st[p] /\ last'.sent = <<>>]_vars

\* An acceptance of a proposal made in round 1 has just reached a peer that is
\* running round 2.
C3_Witness ==
  /\ last.op = "onmessage" /\ last.msg.type \in {"acceptEndChange", "acceptEndNow"}
  /\ last.msg.roundId = 1
  /\ st[last.peer].currentRoundId = 2 /\ st[last.peer].gameState = "running"

\* C4: a received vote for the current round whose target is not the
\* receiver's locked role is rejected: scores and vote log stay, the notice is
\* raised, and the locked role is re-derived from the stored session roles
\* (left alone when none are stored).
C4_MismatchedVoteRejected ==
  [][\A p \in Peers :
       (/\ last'.op = "onmessage" /\ last'.peer = p /\ last'.msg.type = "vote"
        /\ st[p].currentRoundId # 0 /\ last'.msg.roundId = st[p].currentRoundId
        /\ st[p].lockedRole # "none" /\ last'.msg.target # st[p].lockedRole)
       => /\ st'[p].scores = st[p].scores
          /\ st'[p].voteEvents = st[p].voteEvents
          /\ st'[p].voteIgnoreMessage = "mismatch"
          /\ last'.sent = <<>>
          /\ IF st[p].sessionRoles = NoRoles
               THEN st'[p].lockedRole = st[p].lockedRole
               ELSE /\ st'[p].roleLocked
                    /\ st'[p].lockedRole =
                         IF st[p].connectionMode = "offer"
                           THEN st[p].sessionRoles.hostRole
                           ELSE st[p].sessionRoles.guestRole]_vars

\* A vote for the current round has just been refused and the receiver's role
\* has been corrected to the vote's target.
C4_Witness ==
  /\ last.op = "onmessage" /\ last.msg.type = "vote"
  /\ last.msg.roundId = st[last.peer].currentRoundId
  /\ st[last.peer].voteIgnoreMessage = "mismatch"
  /\ st[last.peer].lockedRole = last.msg.target
  /\ st[last.peer].sessionRoles # NoRoles

\* C5: a received vote for the current round that targets the receiver's
\* locked role adds exactly 1 to that role's score, leaves the other score,
\* appends exactly the entry {target, elapsed} at the end of the vote log, and
\* nothing is sent.
C5_VoteApplied ==
  [][\A p \in Peers :
       (/\ last'.op = "onmessage" /\ last'.peer = p /\ last'.msg.type = "vote"
        /\ st[p].currentRoundId # 0 /\ last'.msg.roundId = st[p].currentRoundId
        /\ last'.msg.target = st[p].lockedRole)
       => /\ st'[p].scores[last'.msg.target] = st[p].scores[last'.msg.target] + 1
          /\ st'[p].scores[opposite(last'.msg.target)]
               = st[p].scores[opposite(last'.msg.target)]
          /\ st'[p].voteEvents
               = st[p].voteEvents
                   \o <<[target |-> last'.msg.target, elapsed |-> last'.msg.at]>>
          /\ last'.sent = <<>>
          /\ inbox'[other(p)] = inbox[other(p)]]_vars

\* A received vote has just been appended behind a different earlier entry.
C5_Witness ==
  /\ last.op = "onmessage" /\ last.msg.type = "vote"
  /\ Len(st[last.peer].voteEvents) = 2
  /\ st[last.peer].voteEvents[2] = [target |-> last.msg.target, elapsed |-> last.msg.at]
  /\ st[last.peer].voteEvents[1] # st[last.peer].voteEvents[2]
  /\ st[last.peer].lockedRole = last.msg.target

\* C6: a vote cast locally targets the complement of the role the voter holds
\* when voting: the log gains one entry with that target, the vote sent names
\* it, and the score of the voter's own role does not move.
C6_LocalVoteTargetsOpponent ==
  [][\A p \in Peers :
       (/\ last'.op = "handleVote" /\ last'.peer = p
        /\ (st'[p].voteEvents # st[p].voteEvents \/ st'[p].scores # st[p].scores
            \/ last'.sent # <<>>))
       => /\ st[p].lockedRole \in Roles
          /\ Len(st'[p].voteEvents) = Len(st[p].voteEvents) + 1
          /\ st'[p].voteEvents[Len(st'[p].voteEvents)].target # st[p].lockedRole
          /\ st'[p].scores[st[p].lockedRole] = st[p].scores[st[p].lockedRole]
          /\ st'[p].scores[opposite(st[p].lockedRole)]
               = st[p].scores[opposite(st[p].lockedRole)] + 1
          /\ \A i \in 1..Len(last'.sent) :
               last'.sent[i].type = "vote" => last'.sent[i].target # st[p].lockedRole]_vars

\* A peer has just voted and its vote has been sent.
C6_Witness ==
  /\ last.op = "handleVote"
  /\ st[last.peer].voteEvents # <<>>
  /\ \E i \in 1..Len(last.sent) : last.sent[i].type = "vote"

\* C7: for a given roundId the game state only moves forward: a peer whose
\* round has ended never runs that same round again, whatever the step (tick,
\* message, negotiation, snapshot adoption).
C7_EndedStaysEnded ==
  [][\A p \in Peers :
       (/\ st[p].gameState = "ended" /\ st[p].currentRoundId # 0
        /\ st'[p].currentRoundId = st[p].currentRoundId)
       => st'[p].gameState # "running"]_vars

\* C8: whenever a peer has a current round, its endTime is later than its
\* startTime, also after an accepted end-time change and after a negotiated
\* immediate end.
C8_EndAfterStart ==
  \A p \in Peers :
    st[p].currentRoundId # 0 => st[p].endTimeSec > st[p].startTimeSec

\* C9: for a given roundId a peer's snapshot version never decreases, across
\* local persists and across hydrations from local or peer-pushed snapshots.
C9_VersionNeverDecreases ==
  [][\A p \in Peers :
       (st[p].currentRoundId # 0 /\ st'[p].currentRoundId = st[p].currentRoundId)
       => st'[p].snapshotVersion >= st[p].snapshotVersion]_vars

\* The snapshot a step hydrated from, or NoSnapshot when it hydrated from none.
C10_Hydrated(p) ==
  IF /\ last'.op = "onmessage" /\ last'.msg.type = "stateSnapshot"
     /\ last'.msg.payload.gameId # 0
     /\ st[p].currentRoundId \in {0, last'.msg.payload.gameId}
    THEN last'.msg.payload
    ELSE NoSnapshot

\* The version the first persist of a step counts from: 0 when the step began
\* a fresh round, the hydrated snapshot's version when it hydrated, and the
\* version the peer had before the step otherwise.
C10_Base(p) ==
  IF C10_Hydrated(p) # NoSnapshot THEN C10_Hydrated(p).version
  ELSE IF st'[p].currentRoundId # st[p].currentRoundId THEN 0
  ELSE st[p].snapshotVersion

\* C10: the persists of a round write consecutive versions: the versions a
\* step writes start one above the version it counts from (0 for a fresh
\* round) and rise by one, the last of them is the peer's version and the
\* stored snapshot's version; and a step that leaves the peer with no round,
\* an idle round or no locked role persists nothing.
C10_PersistVersions ==
  [][\A p \in Peers :
       (last'.peer = p /\ last'.op \notin {"mount", "advanceClock"})
       => /\ \A i \in 1..Len(last'.wrote) : last'.wrote[i] = C10_Base(p) + i
          /\ last'.wrote # <<>>
               => /\ st'[p].snapshotVersion = last'.wrote[Len(last'.wrote)]
                  /\ st'[p].snapshotStore[st'[p].currentRoundId].version
                       = st'[p].snapshotVersion
          /\ (\/ st'[p].currentRoundId = 0 \/ st'[p].gameState = "idle"
              \/ st'[p].lockedRole = "none")
               => /\ last'.wrote = <<>>
                  /\ \A id \in GameIds :
                       st'[p].snapshotStore[id] \in {st[p].snapshotStore[id], NoSnapshot}]_vars

\* A round that started at version 0 has just been persisted for the third
\* time, while the other peer, still without a round, has persisted nothing.
C10_Witness ==
  /\ last.op \in {"handleVote", "onmessage", "tick"}
  /\ last.wrote = <<3>>
  /\ st[last.peer].snapshotVersion = 3
  /\ st[last.peer].snapshotStore[st[last.peer].currentRoundId].version = 3
  /\ st[other(last.peer)].currentRoundId = 0
  /\ \A id \in GameIds : st[other(last.peer)].snapshotStore[id] = NoSnapshot

\* The fields a snapshot carries back into the state.
C11_SameRound(a, b) ==
  /\ a.currentRoundId = b.currentRoundId /\ a.sessionId = b.sessionId
  /\ a.lockedRole = b.lockedRole
  /\ a.startTimeSec = b.startTimeSec /\ a.endTimeSec = b.endTimeSec
  /\ a.gameState = b.gameState
  /\ a.scores = b.scores /\ a.voteEvents = b.voteEvents

\* C11: hydrate(persist()) is a round trip.  In every state from which a
\* snapshot can be built, hydrating the snapshot persist would produce into a
\* freshly mounted component gives back the roundId, sessionId, locked role,
\* start and end time, round state, scores and ordered vote log; and after a
\* step that persisted, the snapshot left in the store does so too.
C11_RoundTrip ==
  \A p \in Peers :
    /\ canBuildSnapshot(st[p])
         => C11_SameRound(
              hydrateStateFromSnapshot(InitialPeer,
                                       persistedSnapshot(st[p], st[p], now), now),
              st[p])
    /\ (last.peer = p /\ last.wrote # <<>>)
         => C11_SameRound(
              hydrateStateFromSnapshot(InitialPeer,
                                       st[p].snapshotStore[st[p].currentRoundId], now),
              st[p])

\* A peer with a session and two different votes in its log has just persisted.
C11_Witness ==
  /\ last.wrote # <<>>
  /\ st[last.peer].sessionId # 0
  /\ Len(st[last.peer].voteEvents) = 2
  /\ st[last.peer].voteEvents[1] # st[last.peer].voteEvents[2]
  /\ st[last.peer].snapshotStore[st[last.peer].currentRoundId].events
       = toSnapshotEvents(st[last.peer].voteEvents)

\* The number of assignRoles messages among those a step sent.
C12_Sent(sent) == Cardinality({i \in 1..Len(sent) : sent[i].type = "assignRoles"})

C13_ConfirmedOnlyByMatchingAck ==
  [][\A p \in Peers :
       /\ (~st[p].rolesConfirmed /\ st'[p].rolesConfirmed)
          => /\ last'.op = "onmessage" /\ last'.peer = p
             /\ last'.msg.type = "assignRolesAck"
             /\ st[p].sessionId # 0 /\ last'.msg.sessionId = st[p].sessionId
       /\ (/\ last'.op = "onmessage" /\ last'.peer = p
           /\ last'.msg.type = "assignRolesAck"
           /\ (st[p].sessionId = 0 \/ last'.msg.sessionId # st[p].sessionId))
          => st'[p] = st[p] /\ last'.sent = <<>>]_vars

\* An ack for an earlier session has just reached a peer that is waiting, with
\* its retry timer set, for the ack of its present session.
C13_Witness ==
  /\ last.op = "onmessage" /\ last.msg.type = "assignRolesAck"
  /\ st[last.peer].sessionId # 0
  /\ last.msg.sessionId # st[last.peer].sessionId
  /\ ~st[last.peer].rolesConfirmed
  /\ st[last.peer].assignRolesRetryTimer

C16_Complementary(roles) ==
  /\ roles.hostRole \in Roles /\ roles.guestRole \in Roles
  /\ roles.hostRole # roles.guestRole

\* C16: whenever a peer holds session roles, hostRole and guestRole are the
\* two different roles; so are the roles of every assignRoles and start
\* message in flight.
C16_RolesComplementary ==
  /\ \A p \in Peers :
       st[p].sessionRoles # NoRoles => C16_Complementary(st[p].sessionRoles)
  /\ \A p \in Peers : \A i \in 1..Len(inbox[p]) :
       /\ inbox[p][i].type = "assignRoles" => C16_Complementary(inbox[p][i])
       /\ (inbox[p][i].type = "start" /\ inbox[p][i].roles # NoRoles)
            => C16_Complementary(inbox[p][i].roles)

\* A peer that was never assigned a session holds the roles it has just
\* adopted from a start message, which the sender made up when it started.
C16_Witness ==
  /\ last.op = "onmessage" /\ last.msg.type = "start"
  /\ st[last.peer].sessionId = 0
  /\ st[last.peer].sessionRoles = last.msg.roles
  /\ st[other(last.peer)].sessionRoles = last.msg.roles
  /\ ~st[other(last.peer)].hasSentAssignRoles


\* C17: a stateSnapshot whose round id differs from the round the receiver is
\* in is dropped: the receiver's round id, round state, times, scores, vote
\* log, locked role, session id, snapshot version and persisted store (indeed
\* its whole state) are unchanged, and nothing is sent.
C17_SnapshotOfOtherRoundDropped ==
  [][\A p \in Peers :
       (/\ last'.op = "onmessage"
        /\ last'.peer = p
        /\ last'.msg.type = "stateSnapshot"
        /\ st[p].currentRoundId # 0
        /\ st[p].currentRoundId # last'.msg.payload.gameId)
       => /\ st'[p] = st[p]
          /\ last'.sent = <<>>
          /\ last'.wrote = <<>>]_vars

C17_Witness ==
  /\ last.op = "onmessage"
  /\ last.msg.type = "stateSnapshot"
  /\ last.msg.payload.gameId # 0
  /\ st[last.peer].currentRoundId # 0
  /\ st[last.peer].currentRoundId # last.msg.payload.gameId
  /\ st[last.peer].snapshotStore[last.msg.payload.gameId] = NoSnapshot


\* The round fields of s other than the round state are the snapshot's.
C18_FieldsOf(s, snapshot) ==
  /\ s.currentRoundId = snapshot.gameId
  /\ s.startTimeSec = snapshot.startTimeSec
  /\ s.endTimeSec = snapshot.endTimeSec
  /\ s.scores.red = snapshot.scoreRed /\ s.scores.blue = snapshot.scoreBlue
  /\ Len(s.voteEvents) = Len(snapshot.events)
  /\ \A i \in 1..Len(s.voteEvents) :
       /\ s.voteEvents[i].target = snapshot.events[i].target
       /\ s.voteEvents[i].elapsed = snapshot.events[i].at

\* C18: a stateSnapshot is adopted whole.  When the receiver is in the
\* snapshot's round or in no round, the message handler leaves the round id,
\* start time, end time, round state, scores and vote log equal to the
\* snapshot's, whatever the receiver held (local votes are gone); after the
\* render that follows, these fields are still the snapshot's, the round state
\* differing only where the snapshot says running with an end time that is not
\* ahead of the receiver's clock, which the receiver's timer turns into ended.
C18_SnapshotAdoptedWhole ==
  [][\A p \in Peers :
       (/\ last'.op = "onmessage"
        /\ last'.peer = p
        /\ last'.msg.type = "stateSnapshot"
        /\ last'.msg.payload.gameId # 0
        /\ st[p].currentRoundId \in {0, last'.msg.payload.gameId})
       => /\ C18_FieldsOf(handleIncomingMessage(st[p], last'.msg, now), last'.msg.payload)
          /\ handleIncomingMessage(st[p], last'.msg, now).gameState
               = last'.msg.payload.gameState
          /\ C18_FieldsOf(st'[p], last'.msg.payload)
          /\ \/ st'[p].gameState = last'.msg.payload.gameState
             \/ /\ last'.msg.payload.gameState = "running"
                /\ last'.msg.payload.endTimeSec <= now
                /\ st'[p].gameState = "ended"]_vars

\* Peer g adopted a snapshot without votes while its own vote of that round is
\* still on its way to h: the local vote is gone from g's log and scores.
C18_Witness ==
  /\ last.op = "onmessage"
  /\ last.peer = "g"
  /\ last.msg.type = "stateSnapshot"
  /\ last.msg.payload.gameId = st["g"].currentRoundId
  /\ last.msg.payload.events = <<>>
  /\ st["g"].voteEvents = <<>>
  /\ st["g"].scores = [red |-> 0, blue |-> 0]
  /\ \E i \in 1..Len(inbox["h"]) :
       /\ inbox["h"][i].type = "vote"
       /\ inbox["h"][i].roundId = st["g"].currentRoundId


\* The number of stateSnapshot messages among those a step sent.
C19_Sent(sent) == Cardinality({i \in 1..Len(sent) : sent[i].type = "stateSnapshot"})

\* C19 as stated: a peer that has sent a stateSnapshot since it last was not
\* connected sends no further one, and no step sends two.
C19_OncePerConnection ==
  [][\A p \in Peers :
       last'.peer = p
         => /\ C19_Sent(last'.sent) <= 1
            /\ stateSnapshotSent[p] => C19_Sent(last'.sent) = 0]_vars

\* C19, amended: the snapshot is sent once per setting of the one-shot flag.
\* Only the offering peer sends it, one at a time and only while the flag is
\* clear, which sets the flag; and the flag is cleared again only by a loss of
\* the connected status or by that peer's "start new round".
C19_OncePerFlagClearing ==
  [][\A p \in Peers :
       /\ (last'.peer = p /\ C19_Sent(last'.sent) > 0)
            => /\ C19_Sent(last'.sent) = 1
               /\ st[p].connectionMode = "offer"
               /\ ~st[p].hasSentStateSnapshot
               /\ st'[p].hasSentStateSnapshot
               /\ st'[p].connectionStatus = "connected"
       /\ (st[p].hasSentStateSnapshot /\ ~st'[p].hasSentStateSnapshot)
            => \/ st'[p].connectionStatus # "connected"
               \/ last'.op = "handleStartNewRound" /\ last'.peer = p]_vars

\* Peer h, connected throughout since its first snapshot, has sent the
\* snapshot of its second round.
C19_Witness ==
  /\ last.peer = "h"
  /\ C19_Sent(last.sent) = 1
  /\ st["h"].currentRoundId = 2
  /\ flickers = 0
  /\ st["h"].hasSentStateSnapshot


\* The scores, the vote log and the round id of a and b are the same.
C20_RoundKept(a, b) ==
  /\ a.scores = b.scores
  /\ a.voteEvents = b.voteEvents
  /\ a.currentRoundId = b.currentRoundId

\* C20: a peer in a round that accepts the pending end-time proposal T takes
\* T as its end time and sends exactly acceptEndChange{its round id, T}; a
\* peer that receives acceptEndChange{roundId, T} for the round it is in takes
\* T as its end time; scores, vote log and round id are unchanged by both.
C20_AcceptEndChange ==
  [][\A p \in Peers :
       /\ (/\ last'.op = "handleAcceptIncomingEndChange"
           /\ last'.peer = p
           /\ st[p].currentRoundId # 0)
            => /\ st'[p].endTimeSec = st[p].incomingEndChange
               /\ last'.sent = <<[type |-> "acceptEndChange",
                                  roundId |-> st[p].currentRoundId,
                                  proposedEndTime |-> st[p].incomingEndChange]>>
               /\ C20_RoundKept(st'[p], st[p])
       /\ (/\ last'.op = "onmessage"
           /\ last'.peer = p
           /\ last'.msg.type = "acceptEndChange"
           /\ st[p].currentRoundId # 0
           /\ last'.msg.roundId = st[p].currentRoundId)
            => /\ st'[p].endTimeSec = last'.msg.proposedEndTime
               /\ C20_RoundKept(st'[p], st[p])]_vars

\* The proposer has received the acceptance for its round: both peers are in
\* that round with the agreed end time, and the proposer's end time changed
\* with it (the changed round was persisted again).
C20_Witness ==
  /\ last.op = "onmessage"
  /\ last.msg.type = "acceptEndChange"
  /\ last.msg.roundId = st[last.peer].currentRoundId
  /\ st[last.peer].endTimeSec = last.msg.proposedEndTime
  /\ st[other(last.peer)].currentRoundId = last.msg.roundId
  /\ st[other(last.peer)].endTimeSec = last.msg.proposedEndTime
  /\ last.wrote # <<>>


\* The end time, round state, scores and vote log of a and b are the same.
C21_RoundData(a, b) ==
  /\ a.endTimeSec = b.endTimeSec
  /\ a.gameState = b.gameState
  /\ a.scores = b.scores
  /\ a.voteEvents = b.voteEvents

\* C21: a rejected proposal changes no round data.  None of the steps of a
\* rejected proposal (making it, receiving it, rejecting it, receiving the
\* rejection) changes the end time, round state, scores or vote log of either
\* peer; rejecting in a round clears the decider's pending proposal and sends
\* the reject message, and receiving a rejection changes nothing at all.
C21_RejectChangesNothing ==
  [][/\ (\/ last'.op \in {"handleProposeEndChange", "handleProposeEndNow",
                          "handleRejectIncomingEndChange", "handleRejectIncomingEndNow"}
         \/ /\ last'.op = "onmessage"
            /\ last'.msg.type \in {"proposeEndChange", "proposeEndNow",
                                   "rejectEndChange", "rejectEndNow"})
        => \A q \in Peers : C21_RoundData(st'[q], st[q])
     /\ \A p \in Peers :
          /\ (/\ last'.op = "handleRejectIncomingEndChange" /\ last'.peer = p
              /\ st[p].currentRoundId # 0)
               => /\ st'[p].incomingEndChange = 0
                  /\ last'.sent = <<[type |-> "rejectEndChange",
                                     roundId |-> st[p].currentRoundId,
                                     proposedEndTime |-> st[p].incomingEndChange]>>
          /\ (/\ last'.op = "handleRejectIncomingEndNow" /\ last'.peer = p
              /\ st[p].currentRoundId # 0)
               => /\ ~st'[p].incomingEndNow
                  /\ last'.sent = <<[type |-> "rejectEndNow",
                                     roundId |-> st[p].currentRoundId]>>
          /\ (/\ last'.op = "onmessage" /\ last'.peer = p
              /\ last'.msg.type \in {"rejectEndChange", "rejectEndNow"})
               => st'[p] = st[p] /\ last'.sent = <<>>]_vars

\* The proposer of another end time has received the rejection for its round:
\* both peers still run the round with the end time it had.
C21_Witness ==
  /\ last.op = "onmessage"
  /\ last.msg.type = "rejectEndChange"
  /\ last.msg.roundId = st[last.peer].currentRoundId
  /\ last.msg.proposedEndTime # st[last.peer].endTimeSec
  /\ \A q \in Peers :
       /\ st[q].currentRoundId = last.msg.roundId
       /\ st[q].gameState = "running"
       /\ st[q].endTimeSec = st[last.peer].endTimeSec
       /\ st[q].incomingEndChange = 0


\* The round of s was ended at time nowSec and its tick timer is cancelled.
C22_EndedNow(s, nowSec) ==
  /\ s.gameState = "ended"
  /\ s.endTimeSec = nowSec
  /\ s.timeRemaining = 0
  /\ ~s.timerRef

\* C22: a peer in a round that accepts a pending immediate end has its round
\* ended with end time now and its tick timer cancelled, and sends exactly
\* acceptEndNow{its round id}; a peer that receives acceptEndNow for the round
\* it is in has its round ended, end time set to its clock, remaining 0 and
\* tick timer cancelled, whatever end time was scheduled.
C22_AcceptEndNow ==
  [][\A p \in Peers :
       /\ (/\ last'.op = "handleAcceptIncomingEndNow"
           /\ last'.peer = p
           /\ st[p].currentRoundId # 0)
            => /\ C22_EndedNow(st'[p], now)
               /\ st'[p].currentRoundId = st[p].currentRoundId
               /\ last'.sent = <<[type |-> "acceptEndNow",
                                  roundId |-> st[p].currentRoundId]>>
       /\ (/\ last'.op = "onmessage"
           /\ last'.peer = p
           /\ last'.msg.type = "acceptEndNow"
           /\ st[p].currentRoundId # 0
           /\ last'.msg.roundId = st[p].currentRoundId)
            => /\ C22_EndedNow(st'[p], now)
               /\ st'[p].currentRoundId = st[p].currentRoundId]_vars

\* The proposer has received the acceptance within the second its round
\* started, that is before any end time the round can have been scheduled
\* with: both peers have ended the round early.
C22_Witness ==
  /\ last.op = "onmessage"
  /\ last.msg.type = "acceptEndNow"
  /\ last.msg.roundId = st[last.peer].currentRoundId
  /\ st[last.peer].startTimeSec = now
  /\ C22_EndedNow(st[last.peer], now)
  /\ st[other(last.peer)].gameState = "ended"
  /\ st[other(last.peer)].currentRoundId = last.msg.roundId


\* C23: a local end-time proposal that is not strictly after the current time,
\* or that is made while the peer is not connected, its round is not running
\* or it has no round, is rejected locally: nothing is sent and the peer's
\* state is unchanged.
C23_BadProposalRejected ==
  [][\A p \in Peers :
       (/\ last'.op = "handleProposeEndChange"
        /\ last'.peer = p
        /\ \/ last'.msg.proposedEndTime <= now
           \/ st[p].connectionStatus # "connected"
           \/ st[p].gameState # "running"
           \/ st[p].currentRoundId = 0)
       => /\ last'.sent = <<>>
          /\ st'[p] = st[p]
          /\ inbox' = inbox]_vars

\* A connected peer in a running round has proposed the current second as
\* the new end time, and nothing is on its way to the other peer.
C23_Witness ==
  /\ last.op = "handleProposeEndChange"
  /\ last.msg.proposedEndTime = now
  /\ proposalAllowed(st[last.peer])
  /\ st[last.peer].channel = "open"
  /\ last.sent = <<>>
  /\ inbox[other(last.peer)] = <<>>


\* The index is in the order of the list's comparator (end time descending,
\* then lastUpdatedAt descending) and names no round twice.
C24_SortedUnique(index) ==
  /\ \A i, j \in 1..Len(index) :
       i < j => /\ index[i].endTimeSec >= index[j].endTimeSec
                /\ index[i].endTimeSec = index[j].endTimeSec
                     => index[i].lastUpdatedAt >= index[j].lastUpdatedAt
                /\ index[i].gameId # index[j].gameId

\* C24: after every step (whatever upserts and removals it made) each peer's
\* history index is sorted by end time descending, ties by lastUpdatedAt
\* descending, with at most one entry per round id; a deletion removes exactly
\* the entries of the round deleted; and a step that leaves the peer's round
\* not ended (so that every snapshot it upserted was not ended) and is not a
\* deletion leaves the index unchanged.
C24_HistoryIndexSorted ==
  [][\A p \in Peers :
       /\ C24_SortedUnique(st'[p].historyIndex)
       /\ (last'.op = "handleDeleteHistoryGame" /\ last'.peer = p)
            => /\ \A i \in 1..Len(st'[p].historyIndex) :
                    st'[p].historyIndex[i].gameId # last'.msg.gameId
               /\ Len(st'[p].historyIndex) = Len(st[p].historyIndex) - 1
       /\ (last'.op # "handleDeleteHistoryGame" /\ st'[p].gameState # "ended")
            => st'[p].historyIndex = st[p].historyIndex
       /\ (canBuildSnapshot(st[p]) /\ st[p].gameState # "ended")
            => upsertHistoryIndex(st[p], persistedSnapshot(st[p], st[p], now)) = st[p]]_vars

\* A peer's index lists two rounds, and the round that ended later was
\* appended last and sorted to the front.
C24_Witness ==
  \E p \in Peers :
    /\ Len(st[p].historyIndex) = 2
    /\ st[p].historyIndex[1].gameId > st[p].historyIndex[2].gameId
    /\ st[p].historyIndex[1].endTimeSec > st[p].historyIndex[2].endTimeSec
    /\ last.peer = p
    /\ last.wrote # <<>>


\* C25: the session of a fresh connection is a new one.  When an answering
\* peer that joined afresh (its session roles were reset by the join) and
\* still holds the session id of its previous connection receives the
\* assignRoles of the new connection, the session id it is given differs from
\* the one it holds.
C25_FreshSessionPerConnection ==
  [][\A p \in Peers :
       (/\ last'.op = "onmessage"
        /\ last'.peer = p
        /\ last'.msg.type = "assignRoles"
        /\ st[p].connectionMode = "answer"
        /\ st[p].sessionRoles = NoRoles
        /\ st[p].sessionId # 0)
       => last'.msg.sessionId # st[p].sessionId]_vars


C27_LatestProposalPending ==
  [][\A p \in Peers :
       /\ (/\ last'.op = "onmessage"
           /\ last'.peer = p
           /\ last'.msg.type = "proposeEndChange"
           /\ st[p].currentRoundId # 0
           /\ last'.msg.roundId = st[p].currentRoundId)
            => st'[p].incomingEndChange = last'.msg.proposedEndTime
       /\ (/\ last'.op = "handleAcceptIncomingEndChange"
           /\ last'.peer = p
           /\ st[p].currentRoundId # 0)
            => /\ st'[p].endTimeSec = st[p].incomingEndChange
               /\ st'[p].incomingEndChange = 0
               /\ \A i \in 1..Len(last'.sent) :
                    last'.sent[i].type = "acceptEndChange"
                      => last'.sent[i].proposedEndTime = st[p].incomingEndChange]_vars

\* Peer g has accepted the latest end time that can be proposed, after the
\* behaviour's proposals were all made and none is left in flight or pending
\* at h; its acceptance is on its way to h.
C27_Witness ==
  /\ last.op = "handleAcceptIncomingEndChange"
  /\ last.peer = "g"
  /\ proposals = MaxProposals
  /\ st["h"].incomingEndChange = 0
  /\ \A q \in Peers : \A i \in 1..Len(inbox[q]) :
       inbox[q][i].type \in {"acceptEndChange"}
  /\ Len(inbox["h"]) = 1
  /\ inbox["h"][1].proposedEndTime = MaxTime + 1
  /\ st["g"].endTimeSec = MaxTime + 1


\* Peer p's round is running although the clock has reached its end time.
C28_Expired(p) ==
  st[p].gameState = "running" /\ st[p].endTimeSec <= now

\* C28: a tick of a running round that finds endTime - now <= 0 ends the
\* round, with remaining 0 and the timer stopped; hence, the timers firing, a
\* peer whose round is running with its end time reached does not stay so:
\* the round ends (or its end time is moved ahead of the clock, or the round
\* is left), and a running round never is without its timer.
C28_TickEndsRound ==
  /\ [][\A p \in Peers :
          /\ (/\ last'.op = "tick"
              /\ last'.peer = p
              /\ st[p].gameState = "running"
              /\ st[p].endTimeSec - now <= 0)
               => /\ st'[p].gameState = "ended"
                  /\ st'[p].timeRemaining = 0
                  /\ ~st'[p].timerRef
                  /\ st'[p].endTimeSec = st[p].endTimeSec
          /\ st'[p].gameState = "running" => st'[p].timerRef]_vars
  /\ \A p \in Peers : C28_Expired(p) ~> ~C28_Expired(p)

\* A tick has just ended a peer's round whose end time the clock had reached.
C28_Witness ==
  /\ last.op = "tick"
  /\ st[last.peer].gameState = "ended"
  /\ st[last.peer].currentRoundId # 0
  /\ st[last.peer].endTimeSec <= now
  /\ st[last.peer].endTimeSec > st[last.peer].startTimeSec
  /\ st[last.peer].timeRemaining = 0
  /\ ~st[last.peer].timerRef


\* Neither the round tick timer nor the assignRoles retry timer is pending.
C29_NoTimer(s) == ~s.timerRef /\ ~s.assignRolesRetryTimer

C30_Chosen(s, gid) == IF gid # 0 THEN gid ELSE s.lastSnapshotId

\* A stored snapshot of a round that ended before nowSec.
C30_EndedInPast(snapshot, nowSec) ==
  snapshot.gameState = "ended" /\ snapshot.endTimeSec < nowSec

\* C30: on load the round resumed is the one named by the gid of the address
\* if there is one, else the one of the last-touched pointer; with no such
\* round, no stored snapshot of it, or a stored snapshot that is ended with an
\* end time in the past, nothing is hydrated and the state stays idle with no
\* round; otherwise the stored snapshot of that round is the one resumed.
C30_ResumeOnLoad ==
  [][\A p \in Peers :
       (last'.op = "reload" /\ last'.peer = p) =>
         LET id == C30_Chosen(st[p], last'.msg.gid)
             stored == IF id = 0 THEN NoSnapshot ELSE st[p].snapshotStore[id]
         IN  IF stored = NoSnapshot \/ C30_EndedInPast(stored, now)
               THEN /\ st'[p].gameState = "idle"
                    /\ st'[p].currentRoundId = 0
                    /\ st'[p].voteEvents = <<>>
                    /\ st'[p].snapshotStore = st[p].snapshotStore
               ELSE /\ st'[p].currentRoundId = id
                    /\ st'[p].startTimeSec = stored.startTimeSec
                    /\ st'[p].endTimeSec = stored.endTimeSec
                    /\ st'[p].scores = [red |-> stored.scoreRed, blue |-> stored.scoreBlue]
                    /\ st'[p].gameState # "idle"]_vars

\* The guest was loaded with gid 1 in the address and resumed round 1 although
\* it holds a stored snapshot of the later round 2 as well.
C30_Witness ==
  /\ last.op = "reload"
  /\ last.peer = "g"
  /\ last.msg.gid = 1
  /\ st["g"].currentRoundId = 1
  /\ st["g"].snapshotStore[2] # NoSnapshot

\* A peer was loaded while its storage held only rounds ended in the past:
\* nothing resumed.
C30_WitnessExpired ==
  /\ last.op = "reload"
  /\ st[last.peer].gameState = "idle"
  /\ st[last.peer].currentRoundId = 0
  /\ \E id \in GameIds :
       /\ C30_Chosen(st[last.peer], last.msg.gid) = id
       /\ C30_EndedInPast(st[last.peer].snapshotStore[id], now)


\* The number of entries of a vote log whose target is role r.
C31_Count(voteEvents, r) ==
  Cardinality({i \in 1..Len(voteEvents) : voteEvents[i].target = r})

\* C31: in every reachable state of a peer the score of each role equals the
\* number of entries of that peer's vote log whose target is that role.
C31_ScoresMatchLog ==
  \A p \in Peers : \A r \in Roles :
    st[p].scores[r] = C31_Count(st[p].voteEvents, r)

\* Both peers hold a log of two votes, one for each role, and scores 1 : 1.
C31_Witness ==
  \A p \in Peers :
    /\ Len(st[p].voteEvents) = 2
    /\ st[p].scores = [red |-> 1, blue |-> 1]


\* The host holds its role of a session and the guest has adopted the roles
\* of that session (from assignRoles or from a start carrying roles), over a
\* connection that is still in place at both ends.
C32_RolesAssigned ==
  /\ st["h"].connectionMode = "offer" /\ st["g"].connectionMode = "answer"
  /\ \A p \in Peers : st[p].connectionStatus = "connected" /\ st[p].channel = "open"
  /\ st["h"].sessionRoles # NoRoles
  /\ st["g"].sessionRoles = st["h"].sessionRoles
  /\ \A p \in Peers : st[p].lockedRole # "none"

\* C32: once the host holds its role and the guest has processed the roles of
\* the session, the two peers' locked roles differ in every state of that
\* connection, also after the guest adopts a stateSnapshot pushed by the host.
C32_LockedRolesDiffer ==
  C32_RolesAssigned => st["h"].lockedRole # st["g"].lockedRole


\* The connection is in place at both ends and nothing is in flight.
C33_Quiet ==
  /\ \A p \in Peers : st[p].connectionStatus = "connected" /\ st[p].channel = "open"
  /\ \A p \in Peers : inbox[p] = <<>>

\* C33: with the channel open and every message delivered, two peers that
\* both have a current round hold the same roundId, also when both started a
\* round at the same time.
C33_SameRoundWhenQuiet ==
  (C33_Quiet /\ \A p \in Peers : st[p].currentRoundId # 0)
    => st["h"].currentRoundId = st["g"].currentRoundId


\* Both peers are in the same round, the connection is in place at both ends,
\* nothing is in flight and no proposal is pending.
C34_Settled ==
  /\ \A p \in Peers : st[p].connectionStatus = "connected" /\ st[p].channel = "open"
  /\ \A p \in Peers : inbox[p] = <<>>
  /\ st["h"].currentRoundId # 0
  /\ st["h"].currentRoundId = st["g"].currentRoundId
  /\ \A p \in Peers : st[p].incomingEndChange = 0 /\ ~st[p].incomingEndNow

\* C34: with both peers in the same round, every negotiation message
\* delivered and no proposal pending, both peers hold the same end time, also
\* when both proposed different end times at once and each accepted the
\* other's proposal.
C34_SameEndTimeWhenSettled ==
  C34_Settled => st["h"].endTimeSec = st["g"].endTimeSec


\* The entries of a vote log as a bag.
C35_Votes(voteEvents) ==
  [e \in {voteEvents[i] : i \in 1..Len(voteEvents)} |->
     Cardinality({i \in 1..Len(voteEvents) : voteEvents[i] = e})]

\* Both peers are in the same round with different locked roles that are the
\* roles of their common session, the connection is in place at both ends and
\* nothing is in flight.
C35_Delivered ==
  /\ \A p \in Peers : st[p].connectionStatus = "connected" /\ st[p].channel = "open"
  /\ \A p \in Peers : inbox[p] = <<>>
  /\ st["h"].currentRoundId # 0
  /\ st["h"].currentRoundId = st["g"].currentRoundId
  /\ st["h"].sessionRoles # NoRoles
  /\ st["g"].sessionRoles = st["h"].sessionRoles
  /\ st["h"].lockedRole = st["h"].sessionRoles.hostRole
  /\ st["g"].lockedRole = st["h"].sessionRoles.guestRole

\* C35: with complementary roles, both peers in the same round and every
\* start, vote and stateSnapshot delivered, both peers hold the same scores
\* and the same votes in their logs (compared as bags: identical logs have
\* the same entries).
C35_SameVotesWhenDelivered ==
  C35_Delivered =>
    /\ st["h"].scores = st["g"].scores
    /\ C35_Votes(st["h"].voteEvents) = C35_Votes(st["g"].voteEvents)


\* C36: once a peer's round is ended, its scores, vote log and end time no
\* longer change at that peer as long as it holds that round: votes and
\* acceptances received or decided after the local end do not alter them.
C36_EndedRoundFrozen ==
  [][\A p \in Peers :
       (/\ st[p].gameState = "ended"
        /\ st[p].currentRoundId # 0
        /\ st'[p].currentRoundId = st[p].currentRoundId)
         => /\ st'[p].scores = st[p].scores
            /\ st'[p].voteEvents = st[p].voteEvents
            /\ st'[p].endTimeSec = st[p].endTimeSec]_vars


\* A peer that may vote: it has a locked role, is connected and has a
\* current round that is running.
C37_MayVote(s) ==
  /\ s.lockedRole # "none"
  /\ s.connectionStatus = "connected"
  /\ s.currentRoundId # 0 /\ s.gameState = "running"

\* C37: a vote request of a peer that has no locked role, is not connected
\* or has no running round changes neither its scores nor its vote log and
\* sends no vote message.
C37_VoteOnlyWhenAdmitted ==
  [][\A p \in Peers :
       (last'.op = "handleVote" /\ last'.peer = p /\ ~C37_MayVote(st[p]))
         => /\ st'[p].scores = st[p].scores
            /\ st'[p].voteEvents = st[p].voteEvents
            /\ \A i \in 1..Len(last'.sent) : last'.sent[i].type # "vote"
            /\ \A i \in 1..Len(inbox'[other(p)]) :
                 inbox'[other(p)][i].type = "vote" => i <= Len(inbox[other(p)])]_vars

\* A connected peer with a role asked to vote in its ended round, which holds
\* one vote: the request sent nothing and (votes do not touch the round state)
\* the round was ended before it.
C37_Witness ==
  /\ last.op = "handleVote"
  /\ last.sent = <<>>
  /\ st[last.peer].gameState = "ended"
  /\ st[last.peer].connectionStatus = "connected"
  /\ st[last.peer].lockedRole # "none"
  /\ Len(st[last.peer].voteEvents) = 1


\* A proposal of the other peer is pending at a peer in state s.
C38_Pending(s) == s.incomingEndChange # 0 \/ s.incomingEndNow

\* The answers to a proposal.
C38_Answers ==
  {"acceptEndChange", "rejectEndChange", "acceptEndNow", "rejectEndNow"}

\* C38: a pending incoming proposal refers to the peer's current round.  A
\* proposal is pending only at a peer that has a current round; it becomes
\* pending only by a proposal message for that round; whenever the current
\* round of a peer changes no proposal is pending afterwards; and every accept
\* or reject a peer sends carries the round it held when the proposal was
\* pending.
C38_PendingForCurrentRound ==
  [][\A p \in Peers :
       /\ C38_Pending(st'[p]) => st'[p].currentRoundId # 0
       /\ st'[p].currentRoundId # st[p].currentRoundId => ~C38_Pending(st'[p])
       /\ (st'[p].incomingEndChange # 0
             /\ st'[p].incomingEndChange # st[p].incomingEndChange)
            => /\ last'.op = "onmessage" /\ last'.peer = p
               /\ last'.msg.type = "proposeEndChange"
               /\ last'.msg.roundId = st'[p].currentRoundId
       /\ (st'[p].incomingEndNow /\ ~st[p].incomingEndNow)
            => /\ last'.op = "onmessage" /\ last'.peer = p
               /\ last'.msg.type = "proposeEndNow"
               /\ last'.msg.roundId = st'[p].currentRoundId
       /\ last'.peer = p =>
            \A i \in 1..Len(last'.sent) :
              last'.sent[i].type \in C38_Answers
                => /\ C38_Pending(st[p])
                   /\ last'.sent[i].roundId = st[p].currentRoundId]_vars

\* The guest holds a pending proposal of its round 1 while the start of round
\* 2 is the next message it will process.
C38_Witness ==
  /\ C38_Pending(st["g"])
  /\ st["g"].currentRoundId = 1
  /\ inbox["g"] # <<>>
  /\ inbox["g"][1].type = "start"
  /\ inbox["g"][1].roundId = 2
  /\ inbox["g"][1].endTime > now


\* C39: every entry of a peer's history index has a stored snapshot under the
\* key of its round.
C39_IndexedRoundsStored ==
  \A p \in Peers : \A i \in 1..Len(st[p].historyIndex) :
    st[p].snapshotStore[st[p].historyIndex[i].gameId] # NoSnapshot


\* The host has a locked role and its data channel is open.
C40_Ready ==
  /\ st["h"].connectionMode = "offer"
  /\ st["h"].lockedRole # "none"
  /\ st["h"].channel = "open"

\* C40: if the host has a locked role and its data channel is open (in this
\* scenario it then stays open and the role stays locked), an assignRoles
\* message is eventually sent, in whatever order the role was locked, the
\* connection was reported connected and the channel opened.
C40_AssignRolesEventuallySent ==
  C40_Ready ~> (assignRolesSent["h"] > 0)

====
